---- MODULE Spec2Model ----
\* Verification model of perception_eval: matching strategies, the greedy
\* estimation/ground-truth assignment, and the per-frame TP/FP/FN separation.
\*
\* Numbers.  The crate computes in f64.  Here object fields (position, size,
\* quaternion) are whole numbers, and every derived real is kept exactly:
\* a real is the record [s, n, d] that stands for  s * sqrt(n / d)  with
\* s in {-1, 1}, n >= 0, d > 0.  Distances (square roots of sums of squares)
\* and IoU ratios are both of that shape, so comparisons are exact.
\* Half extents (size * 0.5) are kept in doubled coordinates (see footprint).
EXTENDS Integers, Naturals, Sequences, FiniteSets, TLC

\* ---------------------------------------------------------------------------
\* Bounds of the model
\* ---------------------------------------------------------------------------
MaxEst == 3
MaxGt == 2
MaxCoord == 1
MaxResults == 2
MaxFrameGt == 2
MaxZ == 2
MaxApResults == 3
MaxNumGt == 2
MaxLabels == 3
MaxFrames == 2
MaxEvaluations == 2
MaxScoreResults == 2
MaxCurve == 5

\* ---------------------------------------------------------------------------
\* Option values: None is the empty tuple, Some(x) the one-element tuple
\* ---------------------------------------------------------------------------
None == << >>
Some(x) == << x >>
IsSome(o) == Len(o) = 1
Unwrap(o) == o[1]

\* ---------------------------------------------------------------------------
\* Exact reals  s * sqrt(n / d)
\* ---------------------------------------------------------------------------
Real(s, n, d) == [s |-> s, n |-> n, d |-> d]
Root(n, d) == Real(1, n, d)
Ratio(p, q) == Real(IF (p < 0 /\ q > 0) \/ (p > 0 /\ q < 0) THEN -1 ELSE 1, p * p, q * q)
Zero == Root(0, 1)
One == Root(1, 1)

RealLt(a, b) ==
    IF a.s = 1 /\ b.s = 1 THEN a.n * b.d < b.n * a.d
    ELSE IF a.s = -1 /\ b.s = 1 THEN TRUE
    ELSE IF a.s = 1 /\ b.s = -1 THEN FALSE
    ELSE b.n * a.d < a.n * b.d

RealEq(a, b) == ~RealLt(a, b) /\ ~RealLt(b, a)

RealLe(a, b) == ~RealLt(b, a)

Min2(a, b) == IF a < b THEN a ELSE b
Max2(a, b) == IF a < b THEN b ELSE a

\* ---------------------------------------------------------------------------
\* Labels, matching modes, objects
\* ---------------------------------------------------------------------------
Label == {"Unknown", "Car", "Truck", "Bus", "Bicycle", "Motorbike",
          "Pedestrian", "Animal"}

MatchingMode == {"CenterDistance", "PlaneDistance", "Iou2d", "Iou3d"}

\* DynamicObject with the fields of the struct; position and size in metres,
\* orientation as the quaternion [w, x, y, z].
DynamicObject(label, position, orientation, size, uuid) ==
    [timestamp |-> 10000, frame_id |-> "BaseLink", position |-> position,
     orientation |-> orientation, size |-> size, velocity |-> None,
     confidence |-> 1, label |-> label, pointcloud_num |-> Some(1000),
     uuid |-> Some(uuid)]

\* (mutant) equality of all fields
ObjEq_Strict(a, b) == a = b

\* (mutant) the size compared as well
ObjEq_WithSize(a, b) ==
    /\ a.timestamp = b.timestamp
    /\ a.frame_id = b.frame_id
    /\ a.position = b.position
    /\ a.orientation = b.orientation
    /\ a.size = b.size
    /\ a.label = b.label

\* impl PartialEq for DynamicObject: weak equality
ObjEq(a, b) ==
    /\ a.timestamp = b.timestamp
    /\ a.frame_id = b.frame_id
    /\ a.position = b.position
    /\ a.orientation = b.orientation
    /\ a.label = b.label

\* PartialEq::ne of DynamicObject
ObjNe(a, b) == ~ObjEq(a, b)

PerceptionResult(est, gt) == [estimated_object |-> est, ground_truth_object |-> gt]

\* ---------------------------------------------------------------------------
\* Geometry primitives
\* ---------------------------------------------------------------------------
Sq(x) == x * x

\* point::distance_points, as the exact root of the sum of squares
distance_points(p1, p2) ==
    Root(Sq(p1[1] - p2[1]) + Sq(p1[2] - p2[2]) + Sq(p1[3] - p2[3]), 1)

\* DynamicObject::distance_from
distance_from(obj, point) == distance_points(obj.position, point)

\* DynamicObject::area and ::volume
area(obj) == obj.size[1] * obj.size[2]
volume(obj) == area(obj) * obj.size[3]

\* An orientation [w, x, y, z] is a tuple << w, x, y, z >> of whole numbers, or
\* << w, x, y, z, den >> for the components w / den, x / den, y / den, z / den
quaternion_den(q) == IF Len(q) = 5 THEN q[5] ELSE 1

\* math::quaternion2rotation, rows of the 3x3 matrix (the quotients are exact
\* for the orientations of this module, whose matrices are whole)
quaternion2rotation(q) ==
    LET dd == Sq(quaternion_den(q))
    IN  << << (2 * (Sq(q[1]) + Sq(q[2]))) \div dd - 1,
              (2 * (q[2] * q[3] - q[1] * q[4])) \div dd,
              (2 * (q[2] * q[4] + q[1] * q[3])) \div dd >>,
           << (2 * (q[2] * q[3] + q[1] * q[4])) \div dd,
              (2 * (Sq(q[1]) + Sq(q[3]))) \div dd - 1,
              (2 * (q[3] * q[4] - q[1] * q[2])) \div dd >>,
           << (2 * (q[2] * q[4] - q[1] * q[3])) \div dd,
              (2 * (q[3] * q[4] + q[1] * q[2])) \div dd,
              (2 * (Sq(q[1]) + Sq(q[4]))) \div dd - 1 >> >>

\* DynamicObject::footprint.  The four corners  corner * rot + position,  in
\* DOUBLED coordinates (every coordinate is twice the metric one), so that the
\* half extents size * 0.5 stay whole numbers.
footprint(obj) ==
    LET c == << << obj.size[2], obj.size[1], 0 >>,
                << -obj.size[2], obj.size[1], 0 >>,
                << -obj.size[2], -obj.size[1], 0 >>,
                << obj.size[2], -obj.size[1], 0 >> >>
        rot == quaternion2rotation(obj.orientation)
        mul(v, j) == v[1] * rot[1][j] + v[2] * rot[2][j] + v[3] * rot[3][j]
    IN  [i \in 1..4 |-> << mul(c[i], 1) + 2 * obj.position[1],
                           mul(c[i], 2) + 2 * obj.position[2],
                           mul(c[i], 3) + 2 * obj.position[3] >>]

\* point::distance_points_bev on two footprint corners (doubled coordinates):
\* the SQUARE of the doubled distance
distance_points_bev_sq(p1, p2) == Sq(p1[1] - p2[1]) + Sq(p1[2] - p2[2])

\* point::get_point_left_right
get_point_left_right(point1, point2) ==
    LET cross_product == point1[1] * point2[2] - point1[2] * point2[1]
    IN  IF cross_product < 0 THEN << point1, point2 >> ELSE << point2, point1 >>

\* Vec::sort_by(sort_func) of PlaneDistanceMatching: stable ascending sort of the
\* corners by hypot(x, y), compared through the squares
RECURSIVE sort_by_hypot(_)
sort_by_hypot(pts) ==
    IF Len(pts) <= 1 THEN pts
    ELSE LET key(p) == Sq(p[1]) + Sq(p[2])
             init == sort_by_hypot(SubSeq(pts, 1, Len(pts) - 1))
             last == pts[Len(pts)]
             k == Cardinality({i \in 1..Len(init) : key(init[i]) <= key(last)})
         IN  SubSeq(init, 1, k) \o << last >> \o SubSeq(init, k + 1, Len(init))

\* ---------------------------------------------------------------------------
\* Matching strategies (matching.rs)
\* ---------------------------------------------------------------------------
CenterDistance_score(est, gt) == distance_from(est, gt.position)

CenterDistance_is_better_than(est, gt, threshold) ==
    RealLt(CenterDistance_score(est, gt), threshold)

PlaneDistance_score(est, gt) ==
    LET est_footprint == sort_by_hypot(footprint(est))
        gt_footprint == sort_by_hypot(footprint(gt))
        est_lr == get_point_left_right(est_footprint[1], est_footprint[2])
        gt_lr == get_point_left_right(gt_footprint[1], gt_footprint[2])
        distance_left_sq == distance_points_bev_sq(est_lr[1], gt_lr[1])
        distance_right_sq == distance_points_bev_sq(est_lr[2], gt_lr[2])
    IN  \* sqrt((dl^2 + dr^2) / 2) with dl, dr halved back to metres
        Root(distance_left_sq + distance_right_sq, 8)

PlaneDistance_is_better_than(est, gt, threshold) ==
    RealLt(PlaneDistance_score(est, gt), threshold)

\* get_intersection_area: area of the intersection of the two footprint
\* polygons, times 4 (doubled coordinates).  The footprints of the model's
\* orientations are axis-parallel rectangles, whose intersection is the
\* rectangle of the overlapping x and y ranges.
get_intersection_area(est, gt) ==
    LET lo(fp, c) == CHOOSE v \in {fp[i][c] : i \in 1..4} :
                        \A w \in {fp[i][c] : i \in 1..4} : v <= w
        hi(fp, c) == CHOOSE v \in {fp[i][c] : i \in 1..4} :
                        \A w \in {fp[i][c] : i \in 1..4} : w <= v
        e == footprint(est)
        g == footprint(gt)
        ox == Max2(0, Min2(hi(e, 1), hi(g, 1)) - Max2(lo(e, 1), lo(g, 1)))
        oy == Max2(0, Min2(hi(e, 2), hi(g, 2)) - Max2(lo(e, 2), lo(g, 2)))
    IN  ox * oy

\* get_intersection_height, times 2
get_intersection_height(est, gt) ==
    LET min_z == Min2(2 * est.position[3] - est.size[3],
                      2 * gt.position[3] - gt.size[3])
        max_z == Max2(2 * est.position[3] + est.size[3],
                      2 * gt.position[3] + gt.size[3])
    IN  Max2(0, max_z - min_z)

\* get_intersection_volume, times 8
get_intersection_volume(est, gt) ==
    get_intersection_area(est, gt) * get_intersection_height(est, gt)

\* (mutant) the union taken as the sum of the two areas
Iou2d_score_SumUnion(est, gt) ==
    LET intersection4 == get_intersection_area(est, gt)
        union4 == 4 * (area(est) + area(gt))
    IN  IF union4 = 0 THEN Zero ELSE Ratio(intersection4, union4)

Iou2d_score(est, gt) ==
    LET intersection4 == get_intersection_area(est, gt)
        union4 == 4 * (area(est) + area(gt)) - intersection4
    IN  IF union4 = 0 THEN Zero ELSE Ratio(intersection4, union4)

\* (mutant) a non-strict comparison
Iou2d_is_better_than_Le(est, gt, threshold) ==
    RealLe(threshold, Iou2d_score(est, gt))

Iou2d_is_better_than(est, gt, threshold) ==
    RealLt(threshold, Iou2d_score(est, gt))

Iou3d_score(est, gt) ==
    LET intersection8 == get_intersection_volume(est, gt)
        union8 == 8 * (volume(est) + volume(gt)) - intersection8
    IN  IF union8 = 0 THEN Zero ELSE Ratio(intersection8, union8)

Iou3d_is_better_than(est, gt, threshold) ==
    RealLt(threshold, Iou3d_score(est, gt))

\* dispatch of Box<dyn MatchingMethod>
calculate_matching_score(mode, est, gt) ==
    CASE mode = "CenterDistance" -> CenterDistance_score(est, gt)
      [] mode = "PlaneDistance" -> PlaneDistance_score(est, gt)
      [] mode = "Iou2d" -> Iou2d_score(est, gt)
      [] mode = "Iou3d" -> Iou3d_score(est, gt)

is_better_than(mode, est, gt, threshold) ==
    CASE mode = "CenterDistance" -> CenterDistance_is_better_than(est, gt, threshold)
      [] mode = "PlaneDistance" -> PlaneDistance_is_better_than(est, gt, threshold)
      [] mode = "Iou2d" -> Iou2d_is_better_than(est, gt, threshold)
      [] mode = "Iou3d" -> Iou3d_is_better_than(est, gt, threshold)

\* PerceptionResult::is_result_correct
is_result_correct(result, matching_mode, threshold) ==
    IF IsSome(result.ground_truth_object)
    THEN is_better_than(matching_mode, result.estimated_object,
                        Unwrap(result.ground_truth_object), threshold)
    ELSE FALSE

\* ---------------------------------------------------------------------------
\* State
\* ---------------------------------------------------------------------------
VARIABLES
    pc,                        \* position in get_perception_results
    outcome,                   \* "none", "ok" (returned) or "panic" (aborted)
    estimated_objects,         \* argument
    ground_truth_objects,      \* argument
    estimated_object_list,     \* local clone, shrinks by Vec::remove
    ground_truth_object_list,  \* local clone, shrinks by Vec::remove
    score_table,               \* None until get_score_table has run
    results,                   \* the Vec<PerceptionResult> under construction
    round,                     \* iteration of the outer loop  for _ in 0..N
    est_idx,                   \* index of the inner loop over the table rows
    frame_in,                  \* arguments of PerceptionFrameResult::new
    frame_result,              \* the PerceptionFrameResult, None before the call
    match_in,                  \* arguments of a matching-strategy evaluation
    match_out,                 \* its outputs, None before the call
    ap_in,                     \* Ap (results, num_ground_truth) and the arguments of calculate_ap
    ap_out,                    \* what calculate_ap computed, None before the call
    config,                    \* PerceptionEvaluationManager.config, None if no manager
    frame_calls,               \* arguments of the add_frame_result calls so far
    frame_results,             \* PerceptionEvaluationManager.frame_results
    manager_outcome,           \* "ok", or "panic" once add_frame_result aborted
    metrics_score,             \* outcome of the last get_metrics_score, None before
    params_in,                 \* arguments of get_evaluation_params
    params_out,                \* its return value, None before the call
    score_in,                  \* the maps handed to MetricsScore::evaluate_detection
    score_self,                \* the MetricsScore (self), None if none was built
    score_outcome,             \* "ok", or "panic" once evaluate_detection aborted
    eq_in,                     \* three DynamicObjects to compare
    eq_out                     \* the results of == and != on them, None before

pairVars == << pc, outcome, estimated_objects, ground_truth_objects,
               estimated_object_list, ground_truth_object_list, score_table,
               results, round, est_idx >>
frameVars == << frame_in, frame_result >>
matchVars == << match_in, match_out >>
apVars == << ap_in, ap_out >>
managerVars == << config, frame_calls, frame_results, manager_outcome, metrics_score >>
paramsVars == << params_in, params_out >>
scoreVars == << score_in, score_self, score_outcome >>
eqVars == << eq_in, eq_out >>
laterVars == << apVars, managerVars, paramsVars, scoreVars, eqVars >>
vars == << pairVars, frameVars, matchVars, laterVars >>

\* ---------------------------------------------------------------------------
\* Inputs of the assignment
\* ---------------------------------------------------------------------------
Identity == << 1, 0, 0, 0 >>
PairLabels == {"Car", "Bus"}
UnitSize == << 2, 1, 1 >>

SeqsUpTo(S, n) == UNION {[1..k -> S] : k \in 0..n}

\* Estimations stand at x = 0 or x = 1, ground truths at x = 0..MaxCoord
EstObjects == {DynamicObject(l, << x, 0, 0 >>, Identity, UnitSize, "est") :
                 l \in PairLabels, x \in 0..1}
GtObjects == {DynamicObject(l, << x, 0, 0 >>, Identity, UnitSize, "gt") :
                 l \in PairLabels, x \in 0..MaxCoord}

\* ---------------------------------------------------------------------------
\* result.rs: get_perception_results and its helpers
\* ---------------------------------------------------------------------------
\* usize::MAX and f64::MAX, the start values of the fold over a table row.  The
\* numbers stand for "larger than every index" and "larger than every score".
UsizeMax == 2147483647
F64Max == Root(1000000, 1)

\* (mutant) a removal that leaves the list as it is
Remove_Kept(seq, idx) == seq

\* Vec::remove at a 0-based index
Remove(seq, idx) == SubSeq(seq, 1, idx) \o SubSeq(seq, idx + 2, Len(seq))

\* (mutant) the false-positive results in reverse order
get_fp_perception_results_Reversed(objs) ==
    [i \in 1..Len(objs) |-> PerceptionResult(objs[Len(objs) + 1 - i], None)]

get_fp_perception_results(objs) ==
    [i \in 1..Len(objs) |-> PerceptionResult(objs[i], None)]

get_score_table(ests, gts) ==
    [i \in 1..Len(ests) |->
        [j \in 1..Len(gts) |->
            IF ests[i].label = gts[j].label
            THEN Some(CenterDistance_score(ests[i], gts[j]))
            ELSE None]]

\* row_table.iter().enumerate().fold((usize::MAX, f64::MAX), ...): the pair
\* (index, score) after the first k cells of the row; indices are 0-based
RECURSIVE fold_row(_, _)
fold_row(row_table, k) ==
    IF k = 0 THEN << UsizeMax, F64Max >>
    ELSE LET acc == fold_row(row_table, k - 1)
             b == row_table[k]
         IN  IF IsSome(b)
             THEN IF RealLt(acc[2], Unwrap(b)) THEN acc ELSE << k - 1, Unwrap(b) >>
             ELSE acc

row_gt_idx(row_table) == fold_row(row_table, Len(row_table))[1]

\* get_perception_results, branch  estimated_objects.len() == 0
CallEmptyEstimations ==
    /\ pc = "idle"
    /\ \E gts \in SeqsUpTo(GtObjects, MaxGt) :
         /\ estimated_objects' = << >>
         /\ ground_truth_objects' = gts
    /\ results' = << >>
    /\ pc' = "done"
    /\ outcome' = "ok"
    /\ UNCHANGED << estimated_object_list, ground_truth_object_list,
                    score_table, round, est_idx, frameVars, matchVars, laterVars >>

\* get_perception_results, branch  ground_truth_objects.len() == 0
CallEmptyGroundTruths ==
    /\ pc = "idle"
    /\ \E ests \in SeqsUpTo(EstObjects, MaxEst) :
         /\ Len(ests) # 0
         /\ estimated_objects' = ests
         /\ ground_truth_objects' = << >>
         /\ results' = get_fp_perception_results(ests)
    /\ pc' = "done"
    /\ outcome' = "ok"
    /\ UNCHANGED << estimated_object_list, ground_truth_object_list,
                    score_table, round, est_idx, frameVars, matchVars, laterVars >>

\* get_perception_results, else branch up to the loops: clone both lists and
\* build the score table
CallBuildTable ==
    /\ pc = "idle"
    /\ \E ests \in SeqsUpTo(EstObjects, MaxEst), gts \in SeqsUpTo(GtObjects, MaxGt) :
         /\ Len(ests) # 0
         /\ Len(gts) # 0
         /\ estimated_objects' = ests
         /\ ground_truth_objects' = gts
         /\ estimated_object_list' = ests
         /\ ground_truth_object_list' = gts
         /\ score_table' = Some(get_score_table(ests, gts))
    /\ results' = << >>
    /\ round' = 0
    /\ est_idx' = 0
    /\ pc' = "loop"
    /\ UNCHANGED << outcome, frameVars, matchVars, laterVars >>

\* The index expressions of one inner-loop body are in bounds
BodyInBounds ==
    LET gt_idx == row_gt_idx(Unwrap(score_table)[est_idx + 1])
    IN  /\ est_idx < Len(estimated_object_list)
        /\ gt_idx < Len(ground_truth_object_list)

\* One body of the inner loop  for (est_idx, row_table) in score_table...
LoopBody ==
    /\ pc = "loop"
    /\ BodyInBounds
    /\ LET table == Unwrap(score_table)
           gt_idx == row_gt_idx(table[est_idx + 1])
           last_row == est_idx + 1 = Len(table)
           next_round == IF last_row THEN round + 1 ELSE round
       IN  /\ results' = Append(results,
                 PerceptionResult(estimated_object_list[est_idx + 1],
                                  Some(ground_truth_object_list[gt_idx + 1])))
           /\ score_table' = Some([table EXCEPT ![est_idx + 1][gt_idx + 1] = None])
           /\ estimated_object_list' = Remove(estimated_object_list, est_idx)
           /\ ground_truth_object_list' = Remove(ground_truth_object_list, gt_idx)
           /\ est_idx' = IF last_row THEN 0 ELSE est_idx + 1
           /\ round' = next_round
           /\ pc' = IF next_round = Len(estimated_objects) THEN "tail" ELSE "loop"
    /\ UNCHANGED << outcome, estimated_objects, ground_truth_objects,
                    frameVars, matchVars, laterVars >>

\* An index of the loop body is out of bounds: the call aborts (panic)
LoopPanic ==
    /\ pc = "loop"
    /\ ~BodyInBounds
    /\ pc' = "done"
    /\ outcome' = "panic"
    /\ UNCHANGED << estimated_objects, ground_truth_objects,
                    estimated_object_list, ground_truth_object_list,
                    score_table, results, round, est_idx, frameVars, matchVars, laterVars >>

\* After the loops: the estimations left over become FP results
Finish ==
    /\ pc = "tail"
    /\ results' = IF 0 < Len(estimated_object_list)
                  THEN results \o get_fp_perception_results(estimated_object_list)
                  ELSE results
    /\ pc' = "done"
    /\ outcome' = "ok"
    /\ UNCHANGED << estimated_objects, ground_truth_objects,
                    estimated_object_list, ground_truth_object_list,
                    score_table, round, est_idx, frameVars, matchVars, laterVars >>

\* No calculate_ap call, no manager and no parameter building in progress
ApIdle == ap_in = None /\ ap_out = None

ManagerIdle ==
    /\ config = None
    /\ frame_calls = << >>
    /\ frame_results = << >>
    /\ manager_outcome = "ok"
    /\ metrics_score = None

ParamsIdle == params_in = None /\ params_out = None

\* No MetricsScore under evaluation and no comparison of objects
ScoreIdle == score_in = None /\ score_self = None /\ score_outcome = "ok"

EqIdle == eq_in = None /\ eq_out = None

LaterIdle == ApIdle /\ ManagerIdle /\ ParamsIdle /\ ScoreIdle /\ EqIdle

Init ==
    /\ LaterIdle
    /\ pc = "idle"
    /\ outcome = "none"
    /\ estimated_objects = << >>
    /\ ground_truth_objects = << >>
    /\ estimated_object_list = << >>
    /\ ground_truth_object_list = << >>
    /\ score_table = None
    /\ results = << >>
    /\ round = 0
    /\ est_idx = 0
    /\ frame_in = None
    /\ frame_result = None
    /\ match_in = None
    /\ match_out = None

Next ==
    \/ CallEmptyEstimations
    \/ CallEmptyGroundTruths
    \/ CallBuildTable
    \/ LoopBody
    \/ LoopPanic
    \/ Finish

Spec == Init /\ [][Next]_vars

\* ---------------------------------------------------------------------------
\* threshold.rs and result/frame.rs: PerceptionFrameResult::new
\* ---------------------------------------------------------------------------
Range(seq) == {seq[i] : i \in 1..Len(seq)}

\* (mutant) the threshold of the first target label, whatever the label
get_label_threshold_First(label, target_labels, thresholds) ==
    IF label \in Range(target_labels) THEN Some(thresholds[1]) ELSE None

\* get_label_threshold: the threshold at the first position of the label
get_label_threshold(label, target_labels, thresholds) ==
    IF label \in Range(target_labels)
    THEN LET index == CHOOSE i \in 1..Len(target_labels) :
                         /\ target_labels[i] = label
                         /\ \A j \in 1..(i - 1) : target_labels[j] # label
         IN  Some(thresholds[index])
    ELSE None

\* separate_tp_fp_results after the first k results: << tp_results, fp_results >>
RECURSIVE separate_tp_fp_results(_, _, _, _, _)
separate_tp_fp_results(rs, k, target_labels, matching_mode, matching_thresholds) ==
    IF k = 0 THEN << << >>, << >> >>
    ELSE LET acc == separate_tp_fp_results(rs, k - 1, target_labels,
                                           matching_mode, matching_thresholds)
             result == rs[k]
             threshold == get_label_threshold(result.estimated_object.label,
                                              target_labels, matching_thresholds)
         IN  IF IsSome(threshold)
             THEN IF is_result_correct(result, matching_mode, Unwrap(threshold))
                  THEN << Append(acc[1], result), acc[2] >>
                  ELSE << acc[1], Append(acc[2], result) >>
             ELSE acc

\* is_fn_object: no TP result has a ground truth equal (==) to this one
is_fn_object(ground_truth, tp_results) ==
    ~ \E k \in 1..Len(tp_results) :
          /\ IsSome(tp_results[k].ground_truth_object)
          /\ ObjEq(Unwrap(tp_results[k].ground_truth_object), ground_truth)

\* extract_fn_objects after the first k ground truths
RECURSIVE extract_fn_objects(_, _, _)
extract_fn_objects(ground_truths, k, tp_results) ==
    IF k = 0 THEN << >>
    ELSE LET acc == extract_fn_objects(ground_truths, k - 1, tp_results)
         IN  IF is_fn_object(ground_truths[k], tp_results)
             THEN Append(acc, ground_truths[k])
             ELSE acc

\* PerceptionFrameResult::new
PerceptionFrameResult_new(rs, frame_ground_truth, target_labels, mode, thresholds) ==
    LET tp_fp == separate_tp_fp_results(rs, Len(rs), target_labels, mode, thresholds)
        fn_objects == extract_fn_objects(frame_ground_truth.objects,
                          Len(frame_ground_truth.objects), tp_fp[1])
    IN  [results |-> rs, frame_ground_truth |-> frame_ground_truth,
         tp_results |-> tp_fp[1], fp_results |-> tp_fp[2],
         fn_objects |-> fn_objects]

\* Inputs of PerceptionFrameResult::new.  The ground truths of the results are
\* objects of the frame's ground-truth list (as get_perception_results pairs
\* them), and a threshold list is as long as target_labels (MetricsParams::new).
FrameEsts == {DynamicObject(l, << 0, 0, 0 >>, Identity, UnitSize, "est") :
                l \in PairLabels}
FrameGts == {DynamicObject("Car", << 0, 0, 0 >>, Identity, UnitSize, "gt"),
             DynamicObject("Bus", << 0, 0, 0 >>, Identity, UnitSize, "gt"),
             DynamicObject("Car", << 0, 0, 0 >>, Identity, << 4, 2, 2 >>, "gt2")}
TargetLabelLists == {<< "Car" >>, << "Bus", "Car" >>}
FrameModes == {"PlaneDistance", "Iou2d"}
FrameThresholds == {Ratio(1, 2), Ratio(2, 1)}

LabelThresholdPairs ==
    UNION {{<< tl, th >> : th \in [1..Len(tl) -> FrameThresholds]} :
             tl \in TargetLabelLists}

ResultsOver(gl) ==
    {PerceptionResult(e, g) :
        e \in FrameEsts, g \in {None} \cup {Some(x) : x \in Range(gl)}}

\* Results as get_perception_results pairs them: no ground truth is paired twice
OneToOne(rs) ==
    \A i, j \in 1..Len(rs) :
        (i < j /\ IsSome(rs[i].ground_truth_object)) =>
            rs[i].ground_truth_object # rs[j].ground_truth_object

PairIdle ==
    /\ pc = "idle"
    /\ outcome = "none"
    /\ estimated_objects = << >>
    /\ ground_truth_objects = << >>
    /\ estimated_object_list = << >>
    /\ ground_truth_object_list = << >>
    /\ score_table = None
    /\ results = << >>
    /\ round = 0
    /\ est_idx = 0

InitFrame ==
    /\ PairIdle
    /\ LaterIdle
    /\ \E gl \in SeqsUpTo(FrameGts, MaxFrameGt) :
         \E rs \in {x \in SeqsUpTo(ResultsOver(gl), MaxResults) : OneToOne(x)} :
           \E tt \in LabelThresholdPairs, m \in FrameModes :
             frame_in = [results |-> rs,
                         frame_ground_truth |-> [timestamp |-> 10000, objects |-> gl],
                         target_labels |-> tt[1], matching_mode |-> m,
                         matching_thresholds |-> tt[2]]
    /\ frame_result = None
    /\ match_in = None
    /\ match_out = None

\* One call of PerceptionFrameResult::new on the arguments frame_in
NewFrameResult ==
    /\ frame_result = None
    /\ frame_result' = Some(PerceptionFrameResult_new(frame_in.results,
                               frame_in.frame_ground_truth, frame_in.target_labels,
                               frame_in.matching_mode, frame_in.matching_thresholds))
    /\ UNCHANGED << pairVars, frame_in, matchVars, laterVars >>

NextFrame == NewFrameResult

SpecFrame == InitFrame /\ [][NextFrame]_vars

\* ---------------------------------------------------------------------------
\* Evaluation of one matching strategy on one pair
\* ---------------------------------------------------------------------------
YawPi == << 0, 0, 0, 1 >>

MatchPositions == {<< 1, 1, 0 >>, << 2, 1, 0 >>} \cup {<< 1, 1, z >> : z \in 1..MaxZ}
MatchSizes == {<< 2, 1, 1 >>, << 2, 2, 2 >>, << 0, 0, 0 >>}
MatchObjects == {DynamicObject("Car", p, q, sz, "obj") :
                   p \in MatchPositions, q \in {Identity, YawPi}, sz \in MatchSizes}
MatchThresholds == {Ratio(-1, 1), Zero, Ratio(1, 2), One, Ratio(2, 1)}

InitMatch ==
    /\ PairIdle
    /\ LaterIdle
    /\ frame_in = None
    /\ frame_result = None
    /\ \E e \in MatchObjects, g \in {None} \cup {Some(x) : x \in MatchObjects},
          m \in MatchingMode, t \in MatchThresholds :
         match_in = [estimated_object |-> e, ground_truth_object |-> g,
                     matching_mode |-> m, threshold |-> t]
    /\ match_out = None

\* PerceptionResult::is_result_correct on the pair of match_in, together with
\* the values of the strategy's functions it goes through
Evaluate ==
    /\ match_out = None
    /\ LET e == match_in.estimated_object
           result == PerceptionResult(e, match_in.ground_truth_object)
           correct == is_result_correct(result, match_in.matching_mode,
                                        match_in.threshold)
       IN  IF IsSome(match_in.ground_truth_object)
           THEN LET g == Unwrap(match_in.ground_truth_object)
                IN  match_out' = Some(
                      [is_result_correct |-> correct,
                       score |-> calculate_matching_score(match_in.matching_mode, e, g),
                       is_better_than |-> is_better_than(match_in.matching_mode, e, g,
                                                         match_in.threshold),
                       intersection_height |-> get_intersection_height(e, g),
                       intersection_volume |-> get_intersection_volume(e, g)])
           ELSE match_out' = Some([is_result_correct |-> correct])
    /\ UNCHANGED << pairVars, frameVars, match_in, laterVars >>

NextMatch == Evaluate

SpecMatch == InitMatch /\ [][NextMatch]_vars

\* ---------------------------------------------------------------------------
\* f64 values of the metrics, kept exactly: the fraction num / den (den > 0,
\* lowest terms) or NaN.  Every quotient the code forms divides a sum of
\* tp-values by a positive whole number, so comparing fractions compares the
\* correctly rounded f64 quotients.  Angles are fractions of pi.
\* ---------------------------------------------------------------------------
RECURSIVE Gcd(_, _)
Gcd(a, b) == IF b = 0 THEN a ELSE Gcd(b, a % b)

Abs(x) == IF x < 0 THEN -x ELSE x
Sign(x) == IF x < 0 THEN -1 ELSE IF x = 0 THEN 0 ELSE 1

NaN == [nan |-> TRUE, num |-> 0, den |-> 1]
Frac(n, d) == LET g == Gcd(Abs(n), d) IN [nan |-> FALSE, num |-> n \div g, den |-> d \div g]

FAdd(a, b) == IF a.nan \/ b.nan THEN NaN ELSE Frac(a.num * b.den + b.num * a.den, a.den * b.den)
FSub(a, b) == IF a.nan \/ b.nan THEN NaN ELSE Frac(a.num * b.den - b.num * a.den, a.den * b.den)
FMul(a, b) == IF a.nan \/ b.nan THEN NaN ELSE Frac(a.num * b.num, a.den * b.den)
FDivInt(a, k) == IF a.nan THEN NaN ELSE Frac(a.num, a.den * k)
FLt(a, b) == ~a.nan /\ ~b.nan /\ a.num * b.den < b.num * a.den
FEq(a, b) == ~a.nan /\ ~b.nan /\ a.num * b.den = b.num * a.den
FAbs(a) == IF a.nan THEN NaN ELSE Frac(Abs(a.num), a.den)
\* f64::max and f64::min on numbers
FMax(a, b) == IF FLt(a, b) THEN b ELSE a
FMin(a, b) == IF FLt(b, a) THEN b ELSE a

\* ---------------------------------------------------------------------------
\* math.rs, object3d.rs: heading of an object, in fractions of pi
\* ---------------------------------------------------------------------------
\* f64::atan of the quotient n / d, for the quotients whose arc tangent is a
\* rational multiple of pi: 0, +-1 and +-infinity (d = 0)
atan(n, d) ==
    CASE n = 0 /\ d # 0 -> Frac(0, 1)
      [] n # 0 /\ d = 0 -> Frac(Sign(n), 2)
      [] n # 0 /\ d # 0 /\ Abs(n) = Abs(d) -> Frac(Sign(n) * Sign(d), 4)

\* math::quaternion2euler, the yaw component
quaternion2euler_yaw(q) ==
    atan(2 * (q[1] * q[4] + q[2] * q[3]),
         Sq(quaternion_den(q)) - 2 * (Sq(q[3]) + Sq(q[4])))

\* DynamicObject::heading
heading(obj) ==
    LET yaw == quaternion2euler_yaw(obj.orientation)
    IN  IF FLt(Frac(1, 1), yaw) THEN FSub(yaw, Frac(2, 1))
        ELSE IF FLt(yaw, Frac(-1, 1)) THEN FAdd(yaw, Frac(2, 1))
        ELSE yaw

\* ---------------------------------------------------------------------------
\* metrics/tp_metrics.rs
\* ---------------------------------------------------------------------------
TPMetricsKind == {"AP", "APH"}

TPMetricsAP_get_value(result) ==
    IF IsSome(result.ground_truth_object) THEN Frac(1, 1) ELSE Frac(0, 1)

TPMetricsAPH_get_value(result) ==
    IF IsSome(result.ground_truth_object)
    THEN LET gt == Unwrap(result.ground_truth_object)
             raw == FAbs(FSub(heading(result.estimated_object), heading(gt)))
             diff_heading == IF FLt(Frac(1, 1), raw) THEN FSub(Frac(2, 1), raw) ELSE raw
         IN  FMin(FMax(FSub(Frac(1, 1), diff_heading), Frac(0, 1)), Frac(1, 1))
    ELSE Frac(0, 1)

\* TPMetrics::get_value, by strategy
get_value(tp_metrics, result) ==
    IF tp_metrics = "AP" THEN TPMetricsAP_get_value(result)
    ELSE TPMetricsAPH_get_value(result)

\* ---------------------------------------------------------------------------
\* metrics/detection.rs: Ap
\* ---------------------------------------------------------------------------
\* the guard  self.results.is_empty() && *self.num_ground_truth == 0
Ap_is_degenerate(rs, num_ground_truth) == Len(rs) = 0 /\ num_ground_truth = 0

\* one body of the loop of Ap::calculate_tp_fp: the marks of one result pushed
tp_fp_mark(acc, result, tp_metrics, matching_mode, threshold) ==
    IF is_result_correct(result, matching_mode, threshold)
    THEN << Append(acc[1], get_value(tp_metrics, result)), Append(acc[2], Frac(0, 1)) >>
    ELSE << Append(acc[1], Frac(0, 1)), Append(acc[2], Frac(1, 1)) >>

\* the loop of Ap::calculate_tp_fp over the first k results:
\* << tp_list, fp_list >> before the running sums
RECURSIVE tp_fp_marks(_, _, _, _, _)
tp_fp_marks(rs, k, tp_metrics, matching_mode, threshold) ==
    IF k = 0 THEN << << >>, << >> >>
    ELSE CHOOSE next \in
             {tp_fp_mark(acc, rs[k], tp_metrics, matching_mode, threshold) :
                 acc \in {tp_fp_marks(rs, k - 1, tp_metrics, matching_mode, threshold)}} :
             TRUE

\* list.iter_mut().fold(0.0, |acc, x| { *x += acc; *x }): the first k elements
RECURSIVE running_sum(_, _)
running_sum(list, k) ==
    IF k = 0 THEN << >>
    ELSE CHOOSE next \in
             {Append(acc, FAdd(list[k], IF k = 1 THEN Frac(0, 1) ELSE acc[k - 1])) :
                 acc \in {running_sum(list, k - 1)}} :
             TRUE

\* Ap::calculate_tp_fp: << tp_list, fp_list >>
calculate_tp_fp(rs, num_ground_truth, tp_metrics, matching_mode, threshold) ==
    IF Ap_is_degenerate(rs, num_ground_truth) THEN << << >>, << >> >>
    ELSE CHOOSE lists \in
             {<< running_sum(marks[1], Len(rs)), running_sum(marks[2], Len(rs)) >> :
                 marks \in {tp_fp_marks(rs, Len(rs), tp_metrics, matching_mode, threshold)}} :
             TRUE

\* the for_each of Ap::calculate_precision_recall over the first k elements,
\* the precision over the 0-based index plus  first
RECURSIVE precision_recall_loop(_, _, _, _)
precision_recall_loop(tp_list, num_ground_truth, k, first) ==
    IF k = 0 THEN << << >>, << >> >>
    ELSE CHOOSE next \in
             {<< Append(acc[1], FDivInt(tp_list[k], first + (k - 1))),
                 Append(acc[2], IF num_ground_truth > 0
                                THEN FDivInt(tp_list[k], num_ground_truth)
                                ELSE Frac(0, 1)) >> :
                 acc \in {precision_recall_loop(tp_list, num_ground_truth, k - 1, first)}} :
             TRUE

\* (mutant) precision over the 0-based index plus two
calculate_precision_recall_OffByOne(rs, num_ground_truth, tp_list) ==
    IF Ap_is_degenerate(rs, num_ground_truth) THEN << << >>, << >> >>
    ELSE precision_recall_loop(tp_list, num_ground_truth, Len(tp_list), 2)

\* Ap::calculate_precision_recall: << precision_list, recall_list >>
calculate_precision_recall(rs, num_ground_truth, tp_list) ==
    IF Ap_is_degenerate(rs, num_ground_truth) THEN << << >>, << >> >>
    ELSE precision_recall_loop(tp_list, num_ground_truth, Len(tp_list), 1)

\* precision_list.last().unwrap() of Ap::interpolate_precision_recall fails
interpolate_panics(rs, num_ground_truth, precision_list) ==
    ~Ap_is_degenerate(rs, num_ground_truth) /\ Len(precision_list) = 0

\* the loop  for i in 0..recall_list.len() - 1  after its first k bodies
RECURSIVE interpolate_loop(_, _, _)
interpolate_loop(precision_list, recall_list, k) ==
    IF k = 0
    THEN << << precision_list[Len(precision_list)] >>, << recall_list[Len(recall_list)] >> >>
    ELSE CHOOSE next \in
             {IF FLt(acc[1][Len(acc[1])], precision_list[k])
              THEN << Append(acc[1], precision_list[k]), Append(acc[2], recall_list[k]) >>
              ELSE acc :
                 acc \in {interpolate_loop(precision_list, recall_list, k - 1)}} :
             TRUE

\* (mutant) the guard with "or": also empty when only the ground truths are none
interpolate_precision_recall_OrGuard(rs, num_ground_truth, precision_list, recall_list) ==
    IF Len(rs) = 0 \/ num_ground_truth = 0 THEN << << >>, << >> >>
    ELSE interpolate_loop(precision_list, recall_list, Len(recall_list) - 1)

\* Ap::interpolate_precision_recall: << max_precision_list, max_recall_list >>
interpolate_precision_recall(rs, num_ground_truth, precision_list, recall_list) ==
    IF Ap_is_degenerate(rs, num_ground_truth) THEN << << >>, << >> >>
    ELSE interpolate_loop(precision_list, recall_list, Len(recall_list) - 1)

\* the sum of Ap::calculate_ap after its first k terms
RECURSIVE ap_sum(_, _, _)
ap_sum(max_precision_list, max_recall_list, k) ==
    IF k = 0 THEN Frac(0, 1)
    ELSE CHOOSE ap \in
             {FAdd(acc, FMul(max_precision_list[k],
                             FSub(max_recall_list[k], max_recall_list[k + 1]))) :
                 acc \in {ap_sum(max_precision_list, max_recall_list, k - 1)}} :
             TRUE

\* (mutant) 0.0 instead of NaN when the envelope is empty
ap_of_envelope_ZeroWhenEmpty(max_precision_list, max_recall_list) ==
    IF Len(max_precision_list) = 0 THEN Frac(0, 1)
    ELSE ap_sum(max_precision_list, max_recall_list, Len(max_precision_list) - 1)

\* the tail of Ap::calculate_ap: NaN for the empty envelope, else the sum
ap_of_envelope(max_precision_list, max_recall_list) ==
    IF Len(max_precision_list) = 0 THEN NaN
    ELSE ap_sum(max_precision_list, max_recall_list, Len(max_precision_list) - 1)

\* Ap::calculate_ap from the precision and recall lists on; outcome "panic"
\* when the unwrap of interpolate_precision_recall fails
calculate_ap_interpolated(rs, num_ground_truth, tp_fp, pr) ==
    IF interpolate_panics(rs, num_ground_truth, pr[1])
    THEN [outcome |-> "panic", tp_list |-> tp_fp[1], fp_list |-> tp_fp[2],
          precision_list |-> pr[1], recall_list |-> pr[2]]
    ELSE CHOOSE run \in
             {[outcome |-> "ok", tp_list |-> tp_fp[1], fp_list |-> tp_fp[2],
               precision_list |-> pr[1], recall_list |-> pr[2],
               max_precision_list |-> env[1], max_recall_list |-> env[2],
               value |-> ap_of_envelope(env[1], env[2])] :
                 env \in {interpolate_precision_recall(rs, num_ground_truth, pr[1], pr[2])}} :
             TRUE

\* Ap::calculate_ap from the tp and fp lists on
calculate_ap_curve(rs, num_ground_truth, tp_fp) ==
    CHOOSE run \in
        {calculate_ap_interpolated(rs, num_ground_truth, tp_fp, pr) :
            pr \in {calculate_precision_recall(rs, num_ground_truth, tp_fp[1])}} :
        TRUE

\* Ap::calculate_ap with the lists it goes through
calculate_ap_lists(rs, num_ground_truth, tp_metrics, matching_mode, threshold) ==
    CHOOSE run \in
        {calculate_ap_curve(rs, num_ground_truth, tp_fp) :
            tp_fp \in {calculate_tp_fp(rs, num_ground_truth, tp_metrics,
                                       matching_mode, threshold)}} :
        TRUE

\* Ap::calculate_ap: the value returned, or the panic
calculate_ap(rs, num_ground_truth, tp_metrics, matching_mode, threshold) ==
    CHOOSE out \in
        {IF run.outcome = "panic" THEN [outcome |-> "panic"]
         ELSE [outcome |-> "ok", value |-> run.value] :
            run \in {calculate_ap_lists(rs, num_ground_truth, tp_metrics,
                                        matching_mode, threshold)}} :
        TRUE

\* ---------------------------------------------------------------------------
\* One call of Ap::new(results, num_gt).calculate_ap(tp_metrics, mode, threshold)
\* ---------------------------------------------------------------------------
\* One estimation; ground truths that match it in every mode, that match it
\* turned by a half turn, and that stand one metre away
ApEst == DynamicObject("Car", << 0, 0, 0 >>, Identity, UnitSize, "est")
ApGts == {DynamicObject("Car", << 0, 0, 0 >>, Identity, UnitSize, "gt"),
          DynamicObject("Car", << 0, 0, 0 >>, << 0, 0, 0, 1 >>, UnitSize, "gt"),
          DynamicObject("Car", << 1, 0, 0 >>, Identity, UnitSize, "gt")}
ApResults == {PerceptionResult(ApEst, g) : g \in {None} \cup {Some(x) : x \in ApGts}}
ApThresholds == {Ratio(1, 2), Ratio(2, 1)}

InitAp ==
    /\ PairIdle
    /\ ScoreIdle
    /\ EqIdle
    /\ frame_in = None
    /\ frame_result = None
    /\ match_in = None
    /\ match_out = None
    /\ ManagerIdle
    /\ ParamsIdle
    /\ \E rs \in SeqsUpTo(ApResults, MaxApResults), n \in 0..MaxNumGt :
         \E t \in TPMetricsKind, m \in MatchingMode, th \in ApThresholds :
           ap_in = [results |-> rs, num_ground_truth |-> n, tp_metrics |-> t,
                    matching_mode |-> m, threshold |-> th]
    /\ ap_out = None

\* calculate_ap on the arguments ap_in, with the lists it goes through
CalculateAp ==
    /\ ap_in # None
    /\ ap_out = None
    /\ \E run \in {calculate_ap_lists(ap_in.results, ap_in.num_ground_truth,
                         ap_in.tp_metrics, ap_in.matching_mode, ap_in.threshold)} :
         ap_out' = Some(run)
    /\ UNCHANGED << pairVars, frameVars, matchVars, ap_in, managerVars, paramsVars,
                    scoreVars, eqVars >>

NextAp == CalculateAp

SpecAp == InitAp /\ [][NextAp]_vars

\* Longer result lists under CenterDistance matching: a false positive, a
\* match with the heading of the estimation, and a match whose ground truth
\* [0.5, 0.5, 0.5, 0.5] has the heading pi / 2
CurveGtTurned == DynamicObject("Car", << 0, 0, 0 >>, << 1, 1, 1, 1, 2 >>, UnitSize, "gt")
CurveResults == {PerceptionResult(ApEst, None),
                 PerceptionResult(ApEst, Some(DynamicObject("Car", << 0, 0, 0 >>, Identity,
                                                            UnitSize, "gt"))),
                 PerceptionResult(ApEst, Some(CurveGtTurned))}

InitCurve ==
    /\ PairIdle
    /\ ScoreIdle
    /\ EqIdle
    /\ frame_in = None
    /\ frame_result = None
    /\ match_in = None
    /\ match_out = None
    /\ ManagerIdle
    /\ ParamsIdle
    /\ \E rs \in SeqsUpTo(CurveResults, MaxCurve), n \in 0..MaxNumGt :
         \E t \in TPMetricsKind :
           ap_in = [results |-> rs, num_ground_truth |-> n, tp_metrics |-> t,
                    matching_mode |-> "CenterDistance", threshold |-> Ratio(1, 2)]
    /\ ap_out = None

SpecCurve == InitCurve /\ [][NextAp]_vars

\* ---------------------------------------------------------------------------
\* label.rs, config.rs: building the evaluation parameters
\* ---------------------------------------------------------------------------
\* LabelConverter::new, prefix "autoware": the pairs (name, Label)
LabelConverter_pairs ==
    {<< "car", "Car" >>, << "vehicle.car", "Car" >>,
     << "vehicle.construction", "Car" >>,
     << "vehicle.emergency (ambulance & police)", "Car" >>,
     << "vehicle.police", "Car" >>, << "vehicle.fire", "Car" >>,
     << "vehicle.ambulance", "Car" >>,
     << "truck", "Truck" >>, << "vehicle.truck", "Truck" >>,
     << "trailer", "Truck" >>, << "vehicle.trailer", "Truck" >>,
     << "bus", "Bus" >>, << "vehicle.bus", "Bus" >>,
     << "vehicle.bus (bendy & rigid)", "Bus" >>,
     << "vehicle.bus.rigid", "Bus" >>, << "vehicle.bus.bendy", "Bus" >>,
     << "bicycle", "Bicycle" >>, << "vehicle.bicycle", "Bicycle" >>,
     << "motorbike", "Motorbike" >>, << "vehicle.motorcycle", "Motorbike" >>,
     << "pedestrian", "Pedestrian" >>, << "pedestrian.adult", "Pedestrian" >>,
     << "pedestrian.child", "Pedestrian" >>,
     << "pedestrian.construction_worker", "Pedestrian" >>,
     << "pedestrian.personal_mobility", "Pedestrian" >>,
     << "pedestrian.police_officer", "Pedestrian" >>,
     << "pedestrian.stroller", "Pedestrian" >>,
     << "pedestrian.wheelchair", "Pedestrian" >>,
     << "human.pedestrian.adult", "Pedestrian" >>,
     << "human.pedestrian.child", "Pedestrian" >>,
     << "human.pedestrian.construction_worker", "Pedestrian" >>,
     << "human.pedestrian.personal_mobility", "Pedestrian" >>,
     << "human.pedestrian.police_officer", "Pedestrian" >>,
     << "human.pedestrian.stroller", "Pedestrian" >>,
     << "human.pedestrian.wheelchair", "Pedestrian" >>,
     << "animal", "Animal" >>,
     << "unknown", "Unknown" >>, << "movable_object.barrier", "Unknown" >>,
     << "movable_object.debris", "Unknown" >>,
     << "movable_object.pushable_pullable", "Unknown" >>,
     << "movable_object.trafficcone", "Unknown" >>,
     << "movable_object.traffic_cone", "Unknown" >>,
     << "static_object.bicycle_rack", "Unknown" >>,
     << "static_object.bollard", "Unknown" >>}

\* self.pairs.contains_key(name)
contains_key(name) == \E p \in LabelConverter_pairs : p[1] = name

\* LabelConverter::convert: an unexpected name is logged and set as Unknown
convert(name) ==
    IF contains_key(name)
    THEN (CHOOSE p \in LabelConverter_pairs : p[1] = name)[2]
    ELSE "Unknown"

\* label::convert_labels: Ok(list), one label per name
RECURSIVE convert_labels(_, _)
convert_labels(names, k) ==
    IF k = 0 THEN << >> ELSE Append(convert_labels(names, k - 1), convert(names[k]))

\* vec![value; n]
vec(value, n) == [i \in 1..n |-> value]

\* FilterParams::new (always Ok: convert_labels has no error branch)
FilterParams_new(names, max_x_position, max_y_position, min_point_number, target_uuids) ==
    LET target_labels == convert_labels(names, Len(names))
        n == Len(target_labels)
    IN  [target_labels |-> target_labels,
         max_x_positions |-> vec(max_x_position, n),
         max_y_positions |-> vec(max_y_position, n),
         min_point_numbers |-> IF IsSome(min_point_number)
                               THEN Some(vec(Unwrap(min_point_number), n)) ELSE None,
         target_uuids |-> target_uuids]

\* MetricsParams::new (always Ok)
MetricsParams_new(names, center_distance, plane_distance, iou2d, iou3d) ==
    LET target_labels == convert_labels(names, Len(names))
        n == Len(target_labels)
    IN  [target_labels |-> target_labels,
         center_distance_thresholds |-> vec(center_distance, n),
         plane_distance_thresholds |-> vec(plane_distance, n),
         iou2d_thresholds |-> vec(iou2d, n),
         iou3d_thresholds |-> vec(iou3d, n)]

\* config::get_evaluation_params on the argument record p
get_evaluation_params(p) ==
    [outcome |-> "ok",
     filter_params |-> FilterParams_new(p.target_labels, p.max_x_position,
                           p.max_y_position, p.min_point_number, p.target_uuids),
     metrics_params |-> MetricsParams_new(p.target_labels, p.center_distance_threshold,
                            p.plane_distance_threshold, p.iou2d_threshold,
                            p.iou3d_threshold)]

\* Arguments: label names in and out of the conversion table ("Car" is the
\* spelling of the crate's examples, the table has "car"); the thresholds of
\* the examples (100, 100, Some(0), None, 1.0, 2.0, 0.5, 0.5)
LabelNames == {"car", "bus", "vehicle.car", "Car", "dog"}
FarPosition == 100
NearPosition == 5

EvaluationParams(names, max_x_position) ==
    [target_labels |-> names, max_x_position |-> max_x_position,
     max_y_position |-> FarPosition, min_point_number |-> Some(0),
     target_uuids |-> None, center_distance_threshold |-> One,
     plane_distance_threshold |-> Ratio(2, 1), iou2d_threshold |-> Ratio(1, 2),
     iou3d_threshold |-> Ratio(1, 2)]

InitParams ==
    /\ PairIdle
    /\ ScoreIdle
    /\ EqIdle
    /\ frame_in = None
    /\ frame_result = None
    /\ match_in = None
    /\ match_out = None
    /\ ApIdle
    /\ ManagerIdle
    /\ \E names \in SeqsUpTo(LabelNames, MaxLabels), x \in {NearPosition, FarPosition} :
         params_in = EvaluationParams(names, x)
    /\ params_out = None

\* One call of get_evaluation_params on the arguments params_in
GetEvaluationParams ==
    /\ params_in # None
    /\ params_out = None
    /\ params_out' = Some(get_evaluation_params(params_in))
    /\ UNCHANGED << pairVars, frameVars, matchVars, apVars, managerVars, params_in,
                    scoreVars, eqVars >>

NextParams == GetEvaluationParams

SpecParams == InitParams /\ [][NextParams]_vars

\* ---------------------------------------------------------------------------
\* result.rs: get_perception_results as one call
\* ---------------------------------------------------------------------------
\* (mutant) the ground truth of the pair not recorded
pairing_body_NoGroundTruth(st) ==
    LET gt_idx == row_gt_idx(st.table[st.idx + 1])
        last_row == st.idx + 1 = Len(st.table)
    IN  [est_list |-> Remove(st.est_list, st.idx),
         gt_list |-> Remove(st.gt_list, gt_idx),
         table |-> [st.table EXCEPT ![st.idx + 1][gt_idx + 1] = None],
         rs |-> Append(st.rs, PerceptionResult(st.est_list[st.idx + 1], None)),
         rnd |-> IF last_row THEN st.rnd + 1 ELSE st.rnd,
         idx |-> IF last_row THEN 0 ELSE st.idx + 1]

\* One body of the inner loop of get_perception_results on the state st
\* (lists, table, results, round, est_idx): the state after it
pairing_body(st) ==
    LET gt_idx == row_gt_idx(st.table[st.idx + 1])
        last_row == st.idx + 1 = Len(st.table)
    IN  [est_list |-> Remove(st.est_list, st.idx),
         gt_list |-> Remove(st.gt_list, gt_idx),
         table |-> [st.table EXCEPT ![st.idx + 1][gt_idx + 1] = None],
         rs |-> Append(st.rs, PerceptionResult(st.est_list[st.idx + 1],
                                               Some(st.gt_list[gt_idx + 1]))),
         rnd |-> IF last_row THEN st.rnd + 1 ELSE st.rnd,
         idx |-> IF last_row THEN 0 ELSE st.idx + 1]

\* The loops of get_perception_results from the state st on: Some(results
\* returned), or None when an index of a loop body is out of bounds (panic)
RECURSIVE pairing_loops(_, _)
pairing_loops(n, st) ==
    IF ~(st.idx < Len(st.est_list) /\ row_gt_idx(st.table[st.idx + 1]) < Len(st.gt_list))
    THEN None
    ELSE CHOOSE out \in
             {IF next.rnd = n
              THEN Some(IF 0 < Len(next.est_list)
                        THEN next.rs \o get_fp_perception_results(next.est_list)
                        ELSE next.rs)
              ELSE pairing_loops(n, next) :
                 next \in {pairing_body(st)}} :
             TRUE

\* get_perception_results: Some(results), or None for a panic
get_perception_results(ests, gts) ==
    IF Len(ests) = 0 THEN Some(<< >>)
    ELSE IF Len(gts) = 0 THEN Some(get_fp_perception_results(ests))
    ELSE CHOOSE out \in
             {pairing_loops(Len(ests), st) :
                 st \in {[est_list |-> ests, gt_list |-> gts,
                          table |-> get_score_table(ests, gts),
                          rs |-> << >>, rnd |-> 0, idx |-> 0]}} :
             TRUE

\* ---------------------------------------------------------------------------
\* filter.rs
\* ---------------------------------------------------------------------------
is_target_object(object, target_labels, max_x_positions, max_y_positions, min_point_numbers, target_uuids) ==
    LET in_labels == object.label \in Range(target_labels)
        in_x == in_labels /\ Abs(object.position[1]) <
                    Unwrap(get_label_threshold(object.label, target_labels, max_x_positions))
        in_y == in_x /\ Abs(object.position[2]) <
                    Unwrap(get_label_threshold(object.label, target_labels, max_y_positions))
        has_points ==
            IF IsSome(min_point_numbers) /\ IsSome(object.pointcloud_num)
            THEN LET t == get_label_threshold(object.label, target_labels,
                                              Unwrap(min_point_numbers))
                 IN  in_y /\ (IF IsSome(t) THEN Unwrap(t) ELSE 0) <= Unwrap(object.pointcloud_num)
            ELSE in_y
    IN  IF IsSome(target_uuids)
        THEN IF IsSome(object.uuid)
             THEN has_points /\ Unwrap(object.uuid) \in Range(Unwrap(target_uuids))
             ELSE FALSE
        ELSE has_points

\* filter_objects over the first k objects
RECURSIVE filter_objects(_, _, _, _)
filter_objects(objects, k, is_gt, filter_params) ==
    IF k = 0 THEN << >>
    ELSE LET acc == filter_objects(objects, k - 1, is_gt, filter_params)
             is_target ==
                 is_target_object(objects[k], filter_params.target_labels,
                     filter_params.max_x_positions, filter_params.max_y_positions,
                     IF is_gt THEN filter_params.min_point_numbers ELSE None,
                     IF is_gt THEN filter_params.target_uuids ELSE None)
         IN  IF is_target THEN Append(acc, objects[k]) ELSE acc

\* the results among the first k whose estimation has the label, in order
RECURSIVE results_of_label(_, _, _)
results_of_label(rs, k, label) ==
    IF k = 0 THEN << >>
    ELSE IF rs[k].estimated_object.label = label
         THEN Append(results_of_label(rs, k - 1, label), rs[k])
         ELSE results_of_label(rs, k - 1, label)

\* filter::hash_results: for each target label its results, in order
hash_results(rs, target_labels) ==
    [label \in Range(target_labels) |-> results_of_label(rs, Len(rs), label)]

\* filter::hash_num_objects: for each target label the number of its objects
hash_num_objects(objects, target_labels) ==
    [label \in Range(target_labels) |->
        Cardinality({i \in 1..Len(objects) : objects[i].label = label})]

\* ---------------------------------------------------------------------------
\* metrics/detection.rs, metrics/score.rs: the report
\* ---------------------------------------------------------------------------
\* one body of the loop of DetectionMetricsScore::new: the AP and the APH of
\* the label stored in the lists acc, None for a panic
score_label(acc, ap) ==
    IF ~IsSome(acc) \/ \E tp_metrics \in TPMetricsKind : ap[tp_metrics].outcome = "panic"
    THEN None
    ELSE Some(<< Append(Unwrap(acc)[1], ap["AP"].value),
                 Append(Unwrap(acc)[2], ap["APH"].value) >>)

\* the loop of DetectionMetricsScore::new over the first k (label, threshold)
\* pairs: Some(<< ap_list, aph_list >>), or None when a calculate_ap panicked
RECURSIVE score_labels(_, _, _, _, _, _)
score_labels(results_map, num_gt_map, target_labels, matching_mode, matching_thresholds, k) ==
    IF k = 0 THEN Some(<< << >>, << >> >>)
    ELSE CHOOSE next \in
             {score_label(acc, ap) :
                 acc \in {score_labels(results_map, num_gt_map, target_labels,
                                       matching_mode, matching_thresholds, k - 1)},
                 ap \in {[tp_metrics \in TPMetricsKind |->
                            calculate_ap(results_map[target_labels[k]],
                                         num_gt_map[target_labels[k]], tp_metrics,
                                         matching_mode, matching_thresholds[k])]}} :
             TRUE

\* DetectionMetricsScore::new: Some(score), or None for a panic
DetectionMetricsScore_new(results_map, num_gt_map, target_labels, matching_mode, matching_thresholds) ==
    LET num_targets == Len(target_labels)
        zipped == Min2(num_targets, Len(matching_thresholds))
    IN  CHOOSE score \in
            {IF ~IsSome(lists) THEN None
             ELSE Some([target_labels |-> target_labels,
                        matching_mode |-> matching_mode,
                        thresholds |-> matching_thresholds,
                        scores |-> [AP |-> Unwrap(lists)[1]
                                             \o vec(Frac(0, 1), num_targets - zipped),
                                    APH |-> Unwrap(lists)[2]
                                              \o vec(Frac(0, 1), num_targets - zipped)]]) :
                lists \in {score_labels(results_map, num_gt_map, target_labels,
                                        matching_mode, matching_thresholds, zipped)}} :
            TRUE

\* the matching modes of MetricsScore::evaluate_detection, in its order
DetectionModes == << "CenterDistance", "PlaneDistance", "Iou2d", "Iou3d" >>

\* the thresholds evaluate_detection takes from the parameters for the mode
mode_thresholds(params, matching_mode) ==
    CASE matching_mode = "CenterDistance" -> params.center_distance_thresholds
      [] matching_mode = "PlaneDistance" -> params.plane_distance_thresholds
      [] matching_mode = "Iou2d" -> params.iou2d_thresholds
      [] matching_mode = "Iou3d" -> params.iou3d_thresholds

\* the first j scores that evaluate_detection builds, None for a panic
RECURSIVE evaluate_modes(_, _, _, _)
evaluate_modes(results_map, num_gt_map, params, j) ==
    IF j = 0 THEN Some(<< >>)
    ELSE CHOOSE next \in
             {IF IsSome(acc) /\ IsSome(score)
              THEN Some(Append(Unwrap(acc), Unwrap(score)))
              ELSE None :
                 acc \in {evaluate_modes(results_map, num_gt_map, params, j - 1)},
                 score \in {DetectionMetricsScore_new(results_map, num_gt_map,
                                params.target_labels, DetectionModes[j],
                                mode_thresholds(params, DetectionModes[j]))}} :
             TRUE

\* MetricsScore::evaluate_detection: Some(the four scores), or None for a panic
evaluate_detection(results_map, num_gt_map, params) ==
    evaluate_modes(results_map, num_gt_map, params, Len(DetectionModes))

\* ---------------------------------------------------------------------------
\* manager.rs: PerceptionEvaluationManager
\* ---------------------------------------------------------------------------
EvaluationTask == {"Detection", "Tracking", "Prediction"}

\* the tail of add_frame_result, on the filtered objects
add_filtered_frame(cfg, filtered_estimations, filtered_frame_ground_truth) ==
    CHOOSE frame \in
        {IF ~IsSome(rs) THEN None
         ELSE Some(PerceptionFrameResult_new(Unwrap(rs), filtered_frame_ground_truth,
                       cfg.filter_params.target_labels, "PlaneDistance",
                       cfg.metrics_params.plane_distance_thresholds)) :
            rs \in {get_perception_results(filtered_estimations,
                                           filtered_frame_ground_truth.objects)}} :
        TRUE

\* filter_frame_ground_truth
filter_frame_ground_truth(cfg, frame_ground_truth) ==
    [timestamp |-> frame_ground_truth.timestamp,
     objects |-> filter_objects(frame_ground_truth.objects,
                     Len(frame_ground_truth.objects), TRUE, cfg.filter_params)]

\* add_frame_result: Some(the frame result pushed), or None for a panic
add_frame_result(cfg, estimations, frame_ground_truth) ==
    CHOOSE frame \in
        {add_filtered_frame(cfg, filtered_estimations, filtered_frame_ground_truth) :
            filtered_estimations \in
                {filter_objects(estimations, Len(estimations), FALSE, cfg.filter_params)},
            filtered_frame_ground_truth \in
                {filter_frame_ground_truth(cfg, frame_ground_truth)}} :
        TRUE

\* (mutant) the frame's results put in front of the label's list
append_results_InFront(scene_list, frame_list) == frame_list \o scene_list

\* Vec::append of the frame's results of a label to the label's scene list
append_results(scene_list, frame_list) == scene_list \o frame_list

\* one body of the inner for_each of get_metrics_score, on
\* acc = << scene_results, num_scene_gt, result_map >>; Vec::append moves the
\* results out of result_map
merge_label(acc, num_gt_map, label) ==
    << [acc[1] EXCEPT ![label] = append_results(@, acc[3][label])],
       [acc[2] EXCEPT ![label] = @ + num_gt_map[label]],
       [acc[3] EXCEPT ![label] = << >>] >>

\* the inner for_each of get_metrics_score over the first k target labels, for
\* one frame: << scene_results, num_scene_gt, result_map >>
RECURSIVE merge_frame(_, _, _, _, _, _)
merge_frame(scene_results, num_scene_gt, result_map, num_gt_map, target_labels, k) ==
    IF k = 0 THEN << scene_results, num_scene_gt, result_map >>
    ELSE CHOOSE next \in
             {merge_label(acc, num_gt_map, target_labels[k]) :
                 acc \in {merge_frame(scene_results, num_scene_gt, result_map,
                                      num_gt_map, target_labels, k - 1)}} :
             TRUE

\* the outer for_each of get_metrics_score over the first k frames:
\* << scene_results, num_scene_gt >>
RECURSIVE accumulate_frames(_, _, _)
accumulate_frames(frames, k, target_labels) ==
    IF k = 0
    THEN << [label \in Range(target_labels) |-> << >>],
            [label \in Range(target_labels) |-> 0] >>
    ELSE CHOOSE next \in
             {<< merged[1], merged[2] >> :
                 merged \in
                     {CHOOSE m \in
                          {merge_frame(acc[1], acc[2], result_map, num_gt_map,
                                       target_labels, Len(target_labels)) :
                              acc \in {accumulate_frames(frames, k - 1, target_labels)},
                              result_map \in {hash_results(frames[k].results,
                                                           target_labels)},
                              num_gt_map \in
                                  {hash_num_objects(frames[k].frame_ground_truth.objects,
                                                    target_labels)}} :
                          TRUE}} :
             TRUE

\* the match on the task at the end of get_metrics_score, on
\* acc = << scene_results, num_scene_gt >>
score_of_task(cfg, acc) ==
    IF cfg.evaluation_task = "Detection"
    THEN CHOOSE m \in
             {IF ~IsSome(scores)
              THEN [outcome |-> "panic", scene_results |-> acc[1],
                    num_scene_gt |-> acc[2]]
              ELSE [outcome |-> "ok", scene_results |-> acc[1],
                    num_scene_gt |-> acc[2],
                    score |-> [params |-> cfg.metrics_params,
                               scores |-> Unwrap(scores)]] :
                 scores \in {evaluate_detection(acc[1], acc[2], cfg.metrics_params)}} :
             TRUE
    ELSE [outcome |-> "err", scene_results |-> acc[1], num_scene_gt |-> acc[2],
          error |-> [kind |-> "NotImplementedError", task |-> cfg.evaluation_task]]

\* (mutant) only the first frame accounted for
get_metrics_score_FirstFrame(cfg, frames) ==
    CHOOSE m \in
        {score_of_task(cfg, acc) :
            acc \in {accumulate_frames(frames, Min2(1, Len(frames)),
                                       cfg.metrics_params.target_labels)}} :
        TRUE

\* get_metrics_score: Ok(score), Err(NotImplementedError(task)) or a panic,
\* with the maps it built for the AP calculator
get_metrics_score(cfg, frames) ==
    CHOOSE m \in
        {score_of_task(cfg, acc) :
            acc \in {accumulate_frames(frames, Len(frames),
                                       cfg.metrics_params.target_labels)}} :
        TRUE

\* Frames submitted to the manager: estimations and ground truths of one frame
ManagerCar == DynamicObject("Car", << 0, 0, 0 >>, Identity, UnitSize, "est")
ManagerBus == DynamicObject("Bus", << 0, 0, 0 >>, Identity, UnitSize, "est")
ManagerGt == DynamicObject("Car", << 0, 0, 0 >>, Identity, UnitSize, "gt")
ManagerGtTurned == DynamicObject("Car", << 0, 0, 0 >>, << 0, 0, 0, 1 >>, UnitSize, "gt")
ManagerGtFar == DynamicObject("Car", << NearPosition, 0, 0 >>, Identity, UnitSize, "gt")
\* a second annotation of the place of ManagerGt, of another size and uuid
ManagerGtLarge == DynamicObject("Car", << 0, 0, 0 >>, Identity, << 4, 2, 2 >>, "gt2")

FrameCall(ests, gts) ==
    [estimated_objects |-> ests,
     frame_ground_truth |-> [timestamp |-> 10000, objects |-> gts]]

FrameCalls ==
    {FrameCall(<< ManagerCar >>, << >>),
     FrameCall(<< ManagerCar >>, << ManagerGt >>),
     FrameCall(<< ManagerCar >>, << ManagerGtTurned >>),
     FrameCall(<< ManagerCar >>, << ManagerGtFar >>),
     FrameCall(<< >>, << ManagerGt >>),
     FrameCall(<< ManagerCar, ManagerBus, ManagerCar >>, << >>),
     FrameCall(<< ManagerCar, ManagerCar >>, << ManagerGt >>),
     FrameCall(<< ManagerCar >>, << ManagerGt, ManagerGtLarge >>)}

ManagerLabelNames ==
    {<< "car" >>, << "car", "bus" >>, << "car", "vehicle.car" >>,
     << "Car", "Bus", "Pedestrian" >>}

InitManager ==
    /\ PairIdle
    /\ ScoreIdle
    /\ EqIdle
    /\ frame_in = None
    /\ frame_result = None
    /\ match_in = None
    /\ match_out = None
    /\ ApIdle
    /\ ParamsIdle
    /\ \E task \in EvaluationTask, names \in ManagerLabelNames,
          x \in {NearPosition, FarPosition} :
         LET params == get_evaluation_params(EvaluationParams(names, x))
         IN  config = Some([evaluation_task |-> task,
                            filter_params |-> params.filter_params,
                            metrics_params |-> params.metrics_params])
    /\ frame_calls = << >>
    /\ frame_results = << >>
    /\ manager_outcome = "ok"
    /\ metrics_score = None

\* One call of add_frame_result; a panic ends the run
AddFrameResult ==
    /\ config # None
    /\ manager_outcome = "ok"
    /\ Len(frame_results) < MaxFrames
    /\ \E call \in FrameCalls :
         \E frame \in {add_frame_result(Unwrap(config), call.estimated_objects,
                                        call.frame_ground_truth)} :
             /\ frame_calls' = Append(frame_calls, call)
             /\ frame_results' = IF IsSome(frame)
                                 THEN Append(frame_results, Unwrap(frame))
                                 ELSE frame_results
             /\ manager_outcome' = IF IsSome(frame) THEN "ok" ELSE "panic"
    /\ metrics_score' = None
    /\ UNCHANGED << pairVars, frameVars, matchVars, apVars, config, paramsVars,
                    scoreVars, eqVars >>

\* One call of get_metrics_score on the frames added so far
GetMetricsScore ==
    /\ config # None
    /\ manager_outcome = "ok"
    /\ \E m \in {get_metrics_score(Unwrap(config), frame_results)} :
         /\ metrics_score' = Some(m)
         /\ manager_outcome' = IF m.outcome = "panic" THEN "panic" ELSE "ok"
    /\ UNCHANGED << pairVars, frameVars, matchVars, apVars, config, frame_calls,
                    frame_results, paramsVars, scoreVars, eqVars >>

NextManager == AddFrameResult \/ GetMetricsScore

SpecManager == InitManager /\ [][NextManager]_vars

\* ---------------------------------------------------------------------------
\* metrics/score.rs: a MetricsScore and the calls of evaluate_detection on it
\* ---------------------------------------------------------------------------
\* MetricsScore::new
MetricsScore_new(evaluation_task, params) ==
    [evaluation_task |-> evaluation_task, params |-> params, scores |-> << >>]

\* MetricsScore::evaluate_detection on self: Some(self after the four pushes),
\* or None for a panic
MetricsScore_evaluate_detection(self, results_map, num_gt_map) ==
    CHOOSE out \in
        {IF IsSome(pushed) THEN Some([self EXCEPT !.scores = @ \o Unwrap(pushed)])
         ELSE None :
            pushed \in {evaluate_detection(results_map, num_gt_map, self.params)}} :
        TRUE

\* Label names of the parameters, and the maps: the results and the number of
\* ground truths of Car, nothing for any other target label
ScoreLabelNames == {<< "car" >>, << "car", "bus" >>, << "car", "vehicle.car" >>}

ScoreMaps(target_labels, rs, n) ==
    [results_map |-> [label \in Range(target_labels) |->
                         IF label = "Car" THEN rs ELSE << >>],
     num_gt_map |-> [label \in Range(target_labels) |->
                        IF label = "Car" THEN n ELSE 0]]

InitScore ==
    /\ PairIdle
    /\ frame_in = None
    /\ frame_result = None
    /\ match_in = None
    /\ match_out = None
    /\ ApIdle
    /\ ManagerIdle
    /\ ParamsIdle
    /\ EqIdle
    /\ \E names \in ScoreLabelNames, rs \in SeqsUpTo(ApResults, MaxScoreResults),
          n \in 0..MaxNumGt :
         LET params == get_evaluation_params(
                           EvaluationParams(names, FarPosition)).metrics_params
         IN  /\ score_in = ScoreMaps(params.target_labels, rs, n)
             /\ score_self = Some(MetricsScore_new("Detection", params))
    /\ score_outcome = "ok"

\* One call of evaluate_detection on the MetricsScore; a panic ends the run
EvaluateDetection ==
    /\ score_self # None
    /\ score_outcome = "ok"
    /\ Len(Unwrap(score_self).scores) < Len(DetectionModes) * MaxEvaluations
    /\ \E after \in {MetricsScore_evaluate_detection(Unwrap(score_self),
                         score_in.results_map, score_in.num_gt_map)} :
         /\ score_self' = IF IsSome(after) THEN after ELSE score_self
         /\ score_outcome' = IF IsSome(after) THEN "ok" ELSE "panic"
    /\ UNCHANGED << pairVars, frameVars, matchVars, apVars, managerVars, paramsVars,
                    score_in, eqVars >>

NextScore == EvaluateDetection

SpecScore == InitScore /\ [][NextScore]_vars

\* ---------------------------------------------------------------------------
\* object/object3d.rs: == and != on DynamicObjects
\* ---------------------------------------------------------------------------
\* An object and the objects that differ from it in one field
EqBase == DynamicObject("Car", << 0, 0, 0 >>, Identity, UnitSize, "a")

EqObjects ==
    {EqBase,
     [EqBase EXCEPT !.timestamp = 20000],
     [EqBase EXCEPT !.frame_id = "Map"],
     [EqBase EXCEPT !.position = << 1, 0, 0 >>],
     [EqBase EXCEPT !.orientation = << 0, 0, 0, 1 >>],
     [EqBase EXCEPT !.label = "Bus"],
     [EqBase EXCEPT !.size = << 4, 2, 2 >>],
     [EqBase EXCEPT !.velocity = Some(<< 1, 0, 0 >>)],
     [EqBase EXCEPT !.confidence = 0],
     [EqBase EXCEPT !.pointcloud_num = None],
     [EqBase EXCEPT !.uuid = Some("b")],
     [EqBase EXCEPT !.uuid = None]}

InitEq ==
    /\ PairIdle
    /\ frame_in = None
    /\ frame_result = None
    /\ match_in = None
    /\ match_out = None
    /\ ApIdle
    /\ ManagerIdle
    /\ ParamsIdle
    /\ ScoreIdle
    /\ \E a \in EqObjects, b \in EqObjects, c \in EqObjects :
         eq_in = [a |-> a, b |-> b, c |-> c]
    /\ eq_out = None

\* a == a, a == b, b == a, b == c, a == c and a != b
Compare ==
    /\ eq_in # None
    /\ eq_out = None
    /\ eq_out' = Some([aa |-> ObjEq(eq_in.a, eq_in.a),
                       ab |-> ObjEq(eq_in.a, eq_in.b),
                       ba |-> ObjEq(eq_in.b, eq_in.a),
                       bc |-> ObjEq(eq_in.b, eq_in.c),
                       ac |-> ObjEq(eq_in.a, eq_in.c),
                       ne_ab |-> ObjNe(eq_in.a, eq_in.b)])
    /\ UNCHANGED << pairVars, frameVars, matchVars, apVars, managerVars, paramsVars,
                    scoreVars, eq_in >>

NextEq == Compare

SpecEq == InitEq /\ [][NextEq]_vars

\* ---------------------------------------------------------------------------
\* Properties of the assignment (get_perception_results)
\* ---------------------------------------------------------------------------
Count(seq, x) == Cardinality({i \in 1..Len(seq) : seq[i] = x})

ResultEstimations == [k \in 1..Len(results) |-> results[k].estimated_object]

PairedResults == {k \in 1..Len(results) : IsSome(results[k].ground_truth_object)}

\* C1: whenever a call of get_perception_results is over, it has returned a
\* list with one result per estimation, and every input estimation is the
\* estimation of exactly one result (as multisets, the inputs may repeat).
C1_ResultPerEstimation ==
    pc = "done" =>
        /\ outcome = "ok"
        /\ Len(results) = Len(estimated_objects)
        /\ \A i \in 1..Len(estimated_objects) :
             Count(ResultEstimations, estimated_objects[i])
                = Count(estimated_objects, estimated_objects[i])

\* C2: the assignment is one-to-one: a ground truth of the input list is the
\* ground truth of at most as many results as it occurs in the input list
\* (once, when the input objects are distinct).  Stated of the result list at
\* every point of its construction, hence of every returned list.
C2_OneToOne ==
    \A k \in PairedResults :
        Cardinality({m \in PairedResults :
                        results[m].ground_truth_object = results[k].ground_truth_object})
            <= Count(ground_truth_objects, Unwrap(results[k].ground_truth_object))

\* C2 witness: two estimations have been paired, with two ground truths
C2_TwoPairs ==
    /\ Len(results) = 2
    /\ PairedResults = {1, 2}
    /\ Len(ground_truth_objects) >= 2

\* C3: every pairing step pairs the estimation of the table row it scanned with
\* a ground truth of the same label whose CenterDistance score is the smallest
\* among the not yet consumed ground truths of that label.
C3_PairIsMinimum ==
    [][(pc = "loop" /\ Len(results') = Len(results) + 1) =>
          LET r == results'[Len(results')]
              e == r.estimated_object
              g == Unwrap(r.ground_truth_object)
          IN  /\ IsSome(r.ground_truth_object)
              /\ e = estimated_objects[est_idx + 1]
              /\ e.label = g.label
              /\ \A j \in 1..Len(ground_truth_object_list) :
                   ground_truth_object_list[j].label = e.label =>
                     RealLe(CenterDistance_score(e, g),
                            CenterDistance_score(e, ground_truth_object_list[j]))
      ]_vars

\* An estimation of the input that no ground truth of the input can take
Unpairable(i) ==
    \/ Len(ground_truth_objects) < Len(estimated_objects)
    \/ \A j \in 1..Len(ground_truth_objects) :
         ground_truth_objects[j].label # estimated_objects[i].label

\* C4: when some estimation cannot be paired, the call still returns normally;
\* there are at least |estimations| - |ground truths| results with null ground
\* truth, and an estimation whose label no ground truth has is among them.
C4_UnpairedIsFalsePositive ==
    (pc = "done" /\ \E i \in 1..Len(estimated_objects) : Unpairable(i)) =>
        /\ outcome = "ok"
        /\ Len(results) - Cardinality(PairedResults)
              >= Len(estimated_objects) - Len(ground_truth_objects)
        /\ \A i \in 1..Len(estimated_objects) :
             (\A j \in 1..Len(ground_truth_objects) :
                 ground_truth_objects[j].label # estimated_objects[i].label)
             => \E k \in 1..Len(results) :
                   results[k] = PerceptionResult(estimated_objects[i], None)

\* C5: with no estimation the call returns the empty list, whatever the ground
\* truths; with estimations and no ground truth it returns one result per
\* estimation, in input order, each with null ground truth, and the score
\* table has not been built.
C5_EmptyInputs ==
    pc = "done" =>
        /\ Len(estimated_objects) = 0 => (outcome = "ok" /\ results = << >>)
        /\ (Len(estimated_objects) # 0 /\ Len(ground_truth_objects) = 0) =>
             /\ outcome = "ok"
             /\ Len(results) = Len(estimated_objects)
             /\ \A i \in 1..Len(results) :
                  results[i] = PerceptionResult(estimated_objects[i], None)
             /\ score_table = None

\* C5 witness: a returned call with two different estimations and no ground truth
C5_AllFalsePositive ==
    /\ pc = "done"
    /\ outcome = "ok"
    /\ Len(ground_truth_objects) = 0
    /\ Len(estimated_objects) >= 2
    /\ estimated_objects[1] # estimated_objects[2]
    /\ Len(results) = Len(estimated_objects)

\* ---------------------------------------------------------------------------
\* Properties of the frame separation (PerceptionFrameResult::new)
\* ---------------------------------------------------------------------------
\* The sub-list of seq, in order, of the elements at the positions in keep
RECURSIVE SubList(_, _, _)
SubList(seq, k, keep) ==
    IF k = 0 THEN << >>
    ELSE IF k \in keep THEN Append(SubList(seq, k - 1, keep), seq[k])
    ELSE SubList(seq, k - 1, keep)

\* The position of a label in target_labels that its threshold is taken from
LabelIndex(label, target_labels) ==
    CHOOSE i \in 1..Len(target_labels) :
        /\ target_labels[i] = label
        /\ \A j \in 1..(i - 1) : target_labels[j] # label

IsTarget(r) == r.estimated_object.label \in Range(frame_in.target_labels)

IsTP(r) ==
    /\ IsTarget(r)
    /\ IsSome(r.ground_truth_object)
    /\ is_better_than(frame_in.matching_mode, r.estimated_object,
                      Unwrap(r.ground_truth_object),
                      frame_in.matching_thresholds[
                          LabelIndex(r.estimated_object.label, frame_in.target_labels)])

\* C6: tp_results is the sub-list, in order, of the results whose label is a
\* target label, that have a ground truth and that satisfy the mode's predicate
\* at the threshold of the label's index; fp_results the sub-list of the other
\* results with a target label; results with another label are in neither.
C6_TpFpSeparation ==
    IsSome(frame_result) =>
        LET f == Unwrap(frame_result)
            rs == frame_in.results
        IN  /\ f.tp_results = SubList(rs, Len(rs), {k \in 1..Len(rs) : IsTP(rs[k])})
            /\ f.fp_results = SubList(rs, Len(rs),
                                 {k \in 1..Len(rs) : IsTarget(rs[k]) /\ ~IsTP(rs[k])})
            /\ \A k \in 1..Len(rs) :
                 ~IsTarget(rs[k]) =>
                    /\ rs[k] \notin Range(f.tp_results)
                    /\ rs[k] \notin Range(f.fp_results)

\* C6 witness: a frame of two results, one TP and one dropped for its label
C6_TpAndDropped ==
    /\ IsSome(frame_result)
    /\ Len(frame_in.results) = 2
    /\ Len(Unwrap(frame_result).tp_results) = 1
    /\ Len(Unwrap(frame_result).fp_results) = 0
    /\ \E k \in 1..2 : ~IsTarget(frame_in.results[k])

\* Weak equality of spec section 3, field by field
WeakEqual(a, b) ==
    /\ a.timestamp = b.timestamp
    /\ a.frame_id = b.frame_id
    /\ a.position = b.position
    /\ a.orientation = b.orientation
    /\ a.label = b.label

\* C7: fn_objects is the sub-list, in order, of the frame's ground truths that
\* are weak-equal to the ground truth of no TP result.
C7_FnObjects ==
    IsSome(frame_result) =>
        LET f == Unwrap(frame_result)
            gts == frame_in.frame_ground_truth.objects
            covered(g) == \E k \in 1..Len(f.tp_results) :
                             /\ IsSome(f.tp_results[k].ground_truth_object)
                             /\ WeakEqual(Unwrap(f.tp_results[k].ground_truth_object), g)
        IN  /\ f.fn_objects = SubList(gts, Len(gts),
                                 {j \in 1..Len(gts) : ~covered(gts[j])})
            /\ Range(f.fn_objects) \subseteq Range(gts)
            /\ \A j \in 1..Len(f.fn_objects) : ~covered(f.fn_objects[j])

\* C7 witness: a frame with a TP result, a ground truth it covers and a ground
\* truth that is a false negative
C7_TpAndFn ==
    /\ IsSome(frame_result)
    /\ Len(frame_in.frame_ground_truth.objects) = 2
    /\ Len(Unwrap(frame_result).tp_results) = 1
    /\ Len(Unwrap(frame_result).fn_objects) = 1

\* ---------------------------------------------------------------------------
\* Properties of the matching strategies
\* ---------------------------------------------------------------------------
DistanceModes == {"CenterDistance", "PlaneDistance"}
IouModes == {"Iou2d", "Iou3d"}

Evaluated == IsSome(match_out)
EvaluatedPair == IsSome(match_out) /\ IsSome(match_in.ground_truth_object)

\* C8: a pair matches iff score < threshold in the distance modes and iff
\* threshold < score in the IoU modes; a score equal to the threshold is never
\* a match; a result with null ground truth is never correct.
C8_StrictDirectionalMatch ==
    Evaluated =>
        LET o == Unwrap(match_out)
        IN  IF IsSome(match_in.ground_truth_object)
            THEN /\ o.is_result_correct = o.is_better_than
                 /\ match_in.matching_mode \in DistanceModes =>
                      (o.is_better_than <=> RealLt(o.score, match_in.threshold))
                 /\ match_in.matching_mode \in IouModes =>
                      (o.is_better_than <=> RealLt(match_in.threshold, o.score))
                 /\ RealEq(o.score, match_in.threshold) => ~o.is_result_correct
            ELSE o.is_result_correct = FALSE

\* C8 witness: an IoU score equal to the threshold, judged no match
C8_ScoreEqualsThreshold ==
    /\ EvaluatedPair
    /\ match_in.matching_mode = "Iou2d"
    /\ RealEq(Unwrap(match_out).score, match_in.threshold)
    /\ RealLt(Zero, match_in.threshold)
    /\ ~Unwrap(match_out).is_result_correct

\* The object of the unit tests of matching.rs
IsTestObject(o) ==
    /\ o.position = << 1, 1, 0 >>
    /\ o.orientation = << 1, 0, 0, 0 >>
    /\ o.size = << 2, 1, 1 >>

SelfMatch ==
    /\ EvaluatedPair
    /\ IsTestObject(match_in.estimated_object)
    /\ IsTestObject(Unwrap(match_in.ground_truth_object))

SelfMatchScores ==
    /\ match_in.matching_mode \in DistanceModes => RealEq(Unwrap(match_out).score, Zero)
    /\ match_in.matching_mode \in IouModes => RealEq(Unwrap(match_out).score, One)

\* C9 as stated: the test object against an identical object scores 0, 0, 1, 1
\* in the four modes and matches in all four modes at any positive threshold.
C9_SelfMatchAnyPositiveThreshold ==
    SelfMatch =>
        /\ SelfMatchScores
        /\ RealLt(Zero, match_in.threshold) => Unwrap(match_out).is_better_than

\* C9 amended: the scores are 0, 0, 1, 1; the pair matches in the distance
\* modes exactly at the positive thresholds and in the IoU modes exactly at the
\* thresholds below 1.
C9_SelfMatch ==
    SelfMatch =>
        /\ SelfMatchScores
        /\ match_in.matching_mode \in DistanceModes =>
             (Unwrap(match_out).is_better_than <=> RealLt(Zero, match_in.threshold))
        /\ match_in.matching_mode \in IouModes =>
             (Unwrap(match_out).is_better_than <=> RealLt(match_in.threshold, One))

\* C9 witness: the self match in Iou3d at threshold 0.5, as in the unit test
C9_SelfMatchIou3d ==
    /\ SelfMatch
    /\ match_in.matching_mode = "Iou3d"
    /\ RealEq(match_in.threshold, Ratio(1, 2))
    /\ Unwrap(match_out).is_better_than

\* C10: the vertical overlap of the Iou3d score is the length of the
\* intersection of the two vertical spans (here times 2, as the spans are),
\* and objects whose spans do not overlap have intersection volume 0.
C10_VerticalOverlapIsIntersection ==
    EvaluatedPair =>
        LET e == match_in.estimated_object
            g == Unwrap(match_in.ground_truth_object)
            top == Min2(2 * e.position[3] + e.size[3], 2 * g.position[3] + g.size[3])
            bottom == Max2(2 * e.position[3] - e.size[3], 2 * g.position[3] - g.size[3])
        IN  /\ Unwrap(match_out).intersection_height = Max2(0, top - bottom)
            /\ top <= bottom => Unwrap(match_out).intersection_volume = 0

\* ---------------------------------------------------------------------------
\* Properties of the AP calculator (metrics/detection.rs, metrics/tp_metrics.rs)
\* ---------------------------------------------------------------------------
ApCalled == IsSome(ap_out)
ApReturned == IsSome(ap_out) /\ Unwrap(ap_out).outcome = "ok"

\* the match predicate of the i-th result of the call
ApMatches(i) == is_result_correct(ap_in.results[i], ap_in.matching_mode, ap_in.threshold)

\* the envelope of the claim: from the last pair, the indices n-1, n-2, ...
\* down to the first; after k of them
RECURSIVE BackwardEnvelope(_, _, _)
BackwardEnvelope(precision, recall, k) ==
    IF k = 0 THEN << << precision[Len(precision)] >>, << recall[Len(recall)] >> >>
    ELSE LET acc == BackwardEnvelope(precision, recall, k - 1)
             i == Len(precision) - k
         IN  IF FLt(acc[1][Len(acc[1])], precision[i])
             THEN << Append(acc[1], precision[i]), Append(acc[2], recall[i]) >>
             ELSE acc

\* C11: the envelope of calculate_ap starts from the last (precision, recall)
\* pair and scans backward, from the second-to-last index down to index 0,
\* keeping a point only when its precision exceeds that of the point kept
\* last; the kept precisions are non-decreasing in kept order.
C11_BackwardEnvelope ==
    (ApReturned /\ Len(Unwrap(ap_out).precision_list) > 0) =>
        LET o == Unwrap(ap_out)
            env == BackwardEnvelope(o.precision_list, o.recall_list,
                                    Len(o.precision_list) - 1)
        IN  /\ o.max_precision_list = env[1]
            /\ o.max_recall_list = env[2]
            /\ \A i \in 1..(Len(o.max_precision_list) - 1) :
                 ~FLt(o.max_precision_list[i + 1], o.max_precision_list[i])

\* for each of the first k results: the sum of the tp-values of the matching
\* results up to it, and the number of the results up to it that do not match
RECURSIVE RunningTpFp(_)
RunningTpFp(k) ==
    IF k = 0 THEN << << >>, << >> >>
    ELSE LET acc == RunningTpFp(k - 1)
             tp == IF k = 1 THEN Frac(0, 1) ELSE acc[1][k - 1]
             fp == IF k = 1 THEN Frac(0, 1) ELSE acc[2][k - 1]
         IN  IF ApMatches(k)
             THEN << Append(acc[1], FAdd(tp, get_value(ap_in.tp_metrics, ap_in.results[k]))),
                     Append(acc[2], fp) >>
             ELSE << Append(acc[1], tp), Append(acc[2], FAdd(fp, Frac(1, 1))) >>

\* C12: for the result list in the given order, running_tp[i] is the sum of
\* the tp-values of the matching results up to i (a result that does not
\* match adds 1 to the running false-positive sum), precision[i] is
\* running_tp[i] / (i+1) and recall[i] is running_tp[i] / ground_truth_count,
\* or 0 when the count is 0.
C12_PrecisionRecallCurve ==
    (ApCalled /\ ~Ap_is_degenerate(ap_in.results, ap_in.num_ground_truth)) =>
        LET o == Unwrap(ap_out)
            n == Len(ap_in.results)
            running == RunningTpFp(n)
        IN  /\ o.tp_list = running[1]
            /\ o.fp_list = running[2]
            /\ Len(o.precision_list) = n /\ Len(o.recall_list) = n
            /\ \A i \in 1..n :
                 /\ o.precision_list[i] = FDivInt(running[1][i], i)
                 /\ o.recall_list[i] = IF ap_in.num_ground_truth = 0 THEN Frac(0, 1)
                                       ELSE FDivInt(running[1][i], ap_in.num_ground_truth)

\* C12 witness: a call whose list holds a non-match followed by a match, with
\* two ground truths: precision 1/2 and recall 1/2 at the second result
C12_MatchAfterMiss ==
    /\ ApReturned
    /\ ap_in.num_ground_truth = 2
    /\ Len(ap_in.results) >= 2
    /\ ~ApMatches(1) /\ ApMatches(2)
    /\ Unwrap(ap_out).precision_list[2] = Frac(1, 2)
    /\ Unwrap(ap_out).recall_list[2] = Frac(1, 2)
    /\ Unwrap(ap_out).fp_list[2] = Frac(1, 1)

\* the yaw of an orientation of the model's objects, in fractions of pi
YawOf(q) == CASE q = << 1, 0, 0, 0 >> -> Frac(0, 1) [] q = << 0, 0, 0, 1 >> -> Frac(1, 1)

\* 1 - (heading error / pi) for the yaws of the pair, the error wrapped into [0, pi]
ExpectedAphValue(result) ==
    LET raw == FAbs(FSub(YawOf(result.estimated_object.orientation),
                         YawOf(Unwrap(result.ground_truth_object).orientation)))
        err == IF FLt(Frac(1, 1), raw) THEN FSub(Frac(2, 1), raw) ELSE raw
    IN  FMin(FMax(FSub(Frac(1, 1), err), Frac(0, 1)), Frac(1, 1))

\* the tp-value that the i-th result added to the running sum
AddedTpValue(i) ==
    FSub(Unwrap(ap_out).tp_list[i],
         IF i = 1 THEN Frac(0, 1) ELSE Unwrap(ap_out).tp_list[i - 1])

\* C15: the APH tp-value of a matched pair is 1 - (heading error / pi) clamped
\* to [0,1], the error being the yaw difference wrapped into [0, pi]: 0.0 when
\* the headings differ by exactly pi, 1.0 when they do not differ; the AP
\* tp-value is 1.0 for any pair with a ground truth.
C15_HeadingTpValue ==
    ApCalled =>
        \A i \in 1..Len(Unwrap(ap_out).tp_list) :
            ApMatches(i) =>
                AddedTpValue(i) = IF ap_in.tp_metrics = "AP" THEN Frac(1, 1)
                                  ELSE ExpectedAphValue(ap_in.results[i])

\* C20: calculate_ap never aborts: for every result list (the empty one
\* included), every ground-truth count, mode and threshold it returns a value.
C20_NeverAborts == ApCalled => Unwrap(ap_out).outcome = "ok"

\* ---------------------------------------------------------------------------
\* Properties of the parameter building (config.rs, label.rs)
\* ---------------------------------------------------------------------------
\* C19: building the evaluation parameters with a target label name that is
\* not in the label conversion table returns an error: no parameter set is
\* produced.
C19_UnknownLabelRejected ==
    (IsSome(params_out) /\
     \E i \in 1..Len(params_in.target_labels) : ~contains_key(params_in.target_labels[i])) =>
        Unwrap(params_out).outcome = "err"

\* ---------------------------------------------------------------------------
\* Properties of the manager (add_frame_result, get_metrics_score)
\* ---------------------------------------------------------------------------
MetricsCalled == IsSome(metrics_score)
MetricsReturnedOk == IsSome(metrics_score) /\ Unwrap(metrics_score).outcome = "ok"
TargetLabels == Unwrap(config).metrics_params.target_labels
SceneResults(label) == Unwrap(metrics_score).scene_results[label]
NumSceneGt(label) == Unwrap(metrics_score).num_scene_gt[label]
ScoreModes == << "CenterDistance", "PlaneDistance", "Iou2d", "Iou3d" >>
ModeThresholds(j) ==
    LET params == Unwrap(config).metrics_params
    IN  << params.center_distance_thresholds, params.plane_distance_thresholds,
           params.iou2d_thresholds, params.iou3d_thresholds >>[j]
ReportedScore(j, kind, i) == Unwrap(metrics_score).score.scores[j].scores[kind][i]
LabelIsEmpty(label) == Len(SceneResults(label)) = 0 /\ NumSceneGt(label) = 0

\* C13: for a label with zero results and zero ground truths calculate_ap
\* returns NaN, without failing, for AP and APH in every matching mode, and
\* the report holds that NaN at the label's index of every score list
C13_DegenerateApIsNaN ==
    MetricsCalled =>
        \A i \in 1..Len(TargetLabels) :
            LabelIsEmpty(TargetLabels[i]) =>
                \A j \in 1..4, kind \in TPMetricsKind :
                    /\ calculate_ap(SceneResults(TargetLabels[i]),
                                    NumSceneGt(TargetLabels[i]), kind, ScoreModes[j],
                                    ModeThresholds(j)[i])
                           = [outcome |-> "ok", value |-> NaN]
                    /\ MetricsReturnedOk => ReportedScore(j, kind, i) = NaN

\* a report with a label without results and ground truths next to a label
\* whose score is a number
C13_EmptyLabelReported ==
    /\ MetricsReturnedOk
    /\ \E i \in 1..Len(TargetLabels) : LabelIsEmpty(TargetLabels[i])
    /\ \E i \in 1..Len(TargetLabels) :
         /\ ~LabelIsEmpty(TargetLabels[i])
         /\ ~ReportedScore(1, "AP", i).nan

NoGroundTruthSubmitted ==
    \A k \in 1..Len(frame_calls) : frame_calls[k].frame_ground_truth.objects = << >>

\* the estimations with the label in the first k calls of add_frame_result
RECURSIVE EstimationsOfLabel(_, _)
EstimationsOfLabel(label, k) ==
    IF k = 0 THEN 0
    ELSE EstimationsOfLabel(label, k - 1) +
         Cardinality({i \in 1..Len(frame_calls[k].estimated_objects) :
                         frame_calls[k].estimated_objects[i].label = label})

\* C14: in a detection evaluation with k >= 1 estimations of a target label
\* and no ground truth, the label's result list has length k, every result has no ground truth, the
\* recall is 0 all along the curve, and AP and APH of all four matching modes
\* are one and the same value
C14_AllFalsePositives ==
    (MetricsCalled /\ NoGroundTruthSubmitted
                   /\ Unwrap(config).evaluation_task = "Detection") =>
        \A i \in 1..Len(TargetLabels) :
            LET label == TargetLabels[i]
                k == EstimationsOfLabel(label, Len(frame_calls))
            IN  k >= 1 =>
                  /\ Len(SceneResults(label)) = k
                  /\ \A r \in 1..k : SceneResults(label)[r].ground_truth_object = None
                  /\ MetricsReturnedOk
                  /\ \A j \in 1..4, kind \in TPMetricsKind :
                        LET run == calculate_ap_lists(SceneResults(label),
                                       NumSceneGt(label), kind, ScoreModes[j],
                                       ModeThresholds(j)[i])
                        IN  /\ run.outcome = "ok"
                            /\ Len(run.recall_list) = k
                            /\ \A x \in 1..k : run.recall_list[x] = Frac(0, 1)
                            /\ run.value = ReportedScore(j, kind, i)
                            /\ FEq(ReportedScore(j, kind, i), ReportedScore(1, "AP", i))

\* three estimations of a target label, no ground truth, the score computed
C14_ThreeEstimationsNoGroundTruth ==
    /\ MetricsReturnedOk
    /\ NoGroundTruthSubmitted
    /\ \E i \in 1..Len(TargetLabels) :
         /\ EstimationsOfLabel(TargetLabels[i], Len(frame_calls)) = 3
         /\ Len(SceneResults(TargetLabels[i])) = 3

\* the results of the label in the first k frames, frame after frame, each
\* frame's in its assignment order
RECURSIVE ResultsInFrameOrder(_, _)
ResultsInFrameOrder(label, k) ==
    IF k = 0 THEN << >>
    ELSE ResultsInFrameOrder(label, k - 1) \o
         SelectSeq(frame_results[k].results,
                   LAMBDA r : r.estimated_object.label = label)

\* C16: the result list of every target label that get_metrics_score hands to
\* the AP calculator is the concatenation of the frames' results of the label
\* in the order the frames were added
C16_FrameOrderKept ==
    MetricsCalled =>
        \A label \in Range(TargetLabels) :
            SceneResults(label) = ResultsInFrameOrder(label, Len(frame_results))

\* two frames with different results of one label, merged
C16_TwoFramesMerged ==
    /\ MetricsCalled
    /\ Len(frame_results) = 2
    /\ \E label \in Range(TargetLabels) :
         /\ ResultsInFrameOrder(label, 1) # << >>
         /\ ResultsInFrameOrder(label, 2) # ResultsInFrameOrder(label, 1)
         /\ ResultsInFrameOrder(label, 2)
               # frame_results[2].results \o frame_results[1].results

\* the filtered ground truths with the label in the first k frames
RECURSIVE GroundTruthsOfLabel(_, _)
GroundTruthsOfLabel(label, k) ==
    IF k = 0 THEN 0
    ELSE GroundTruthsOfLabel(label, k - 1) +
         Cardinality({i \in 1..Len(frame_results[k].frame_ground_truth.objects) :
                         frame_results[k].frame_ground_truth.objects[i].label = label})

\* C17: the ground-truth count of every target label that get_metrics_score
\* hands to the AP calculator is the number of filtered ground truths with
\* the label over all frames added, also for a label listed twice
C17_GroundTruthCount ==
    MetricsCalled =>
        \A label \in Range(TargetLabels) :
            NumSceneGt(label) = GroundTruthsOfLabel(label, Len(frame_results))

\* C18: get_metrics_score returns NotImplementedError with the task for
\* Tracking and Prediction, and no score; for Detection it returns Ok with a
\* report
C18_TaskOutcome ==
    MetricsCalled =>
        LET m == Unwrap(metrics_score)
            task == Unwrap(config).evaluation_task
        IN  IF task = "Detection"
            THEN m.outcome = "ok" /\ "score" \in DOMAIN m
            ELSE /\ m.outcome = "err"
                 /\ m.error = [kind |-> "NotImplementedError", task |-> task]
                 /\ "score" \notin DOMAIN m

\* ---------------------------------------------------------------------------
\* Properties of MetricsScore
\* ---------------------------------------------------------------------------
ScoreEvaluated == score_self # None /\ Len(Unwrap(score_self).scores) > 0

\* C21: a MetricsScore on which evaluate_detection has run holds exactly four
\* reports, of CenterDistance, PlaneDistance, Iou2d and Iou3d in this order,
\* however often evaluate_detection was called; each report has its mode's
\* thresholds and an AP and an APH list as long as target_labels, entry i
\* computed for target_labels[i] with threshold i of the mode
C21_FourReports ==
    ScoreEvaluated =>
        LET self == Unwrap(score_self)
            labels == self.params.target_labels
        IN  /\ Len(self.scores) = 4
            /\ \A j \in 1..4 :
                 /\ self.scores[j].matching_mode = ScoreModes[j]
                 /\ self.scores[j].thresholds =
                        << self.params.center_distance_thresholds,
                           self.params.plane_distance_thresholds,
                           self.params.iou2d_thresholds,
                           self.params.iou3d_thresholds >>[j]
                 /\ \A kind \in TPMetricsKind :
                      /\ Len(self.scores[j].scores[kind]) = Len(labels)
                      /\ \A i \in 1..Len(labels) :
                           self.scores[j].scores[kind][i] =
                               calculate_ap(score_in.results_map[labels[i]],
                                            score_in.num_gt_map[labels[i]], kind,
                                            ScoreModes[j],
                                            self.scores[j].thresholds[i]).value

\* ---------------------------------------------------------------------------
\* Properties of the equality of DynamicObject
\* ---------------------------------------------------------------------------
ComparedFields == {"timestamp", "frame_id", "position", "orientation", "label"}
IgnoredFields == {"size", "confidence", "velocity", "pointcloud_num", "uuid"}

\* C22: two DynamicObjects are equal iff timestamp, frame_id, position,
\* orientation and label are equal, whatever their size, confidence, velocity,
\* point count and uuid; equality is reflexive, symmetric and transitive, and
\* != is its negation
C22_WeakEquality ==
    eq_out # None =>
        LET out == Unwrap(eq_out)
        IN  /\ out.ab <=> \A f \in ComparedFields : eq_in.a[f] = eq_in.b[f]
            /\ out.aa
            /\ out.ab <=> out.ba
            /\ (out.ab /\ out.bc) => out.ac
            /\ out.ne_ab <=> ~out.ab

\* three objects found equal of which two differ in a field that is not
\* compared
C22_EqualButDifferent ==
    /\ eq_out # None
    /\ Unwrap(eq_out).ab
    /\ Unwrap(eq_out).bc
    /\ Unwrap(eq_out).ac
    /\ \E f \in IgnoredFields : eq_in.a[f] # eq_in.b[f]
    /\ \E f \in IgnoredFields : eq_in.b[f] # eq_in.c[f]

\* ---------------------------------------------------------------------------
\* Determinism of the assignment
\* ---------------------------------------------------------------------------
\* C23: a second run of get_perception_results on the same lists in the same
\* order ends like the first one: it returns the same pairs in the same order,
\* or it aborts as the first one did
C23_Deterministic ==
    pc = "done" =>
        LET again == get_perception_results(estimated_objects, ground_truth_objects)
        IN  /\ outcome = "ok" => again = Some(results)
            /\ outcome = "panic" => again = None

\* a returned call that paired an estimation with a ground truth
C23_PairReturned ==
    /\ pc = "done"
    /\ outcome = "ok"
    /\ \E i \in 1..Len(results) : IsSome(results[i].ground_truth_object)

\* ---------------------------------------------------------------------------
\* Frame effects of the manager
\* ---------------------------------------------------------------------------
\* C24: every call of add_frame_result returns Ok and appends exactly one
\* PerceptionFrameResult to frame_results, leaving the earlier entries as they
\* were; after k calls frame_results has k entries
C24_FrameAppended ==
    [][AddFrameResult =>
          /\ manager_outcome' = "ok"
          /\ Len(frame_results') = Len(frame_results) + 1
          /\ SubSeq(frame_results', 1, Len(frame_results)) = frame_results
          /\ Len(frame_results') = Len(frame_calls')]_vars

\* C25: get_metrics_score leaves frame_results as they are, computes its
\* report from all the frames added before it and from nothing else, and a
\* second call with no add_frame_result in between returns the same report
C25_ReadOnlyReport ==
    [][GetMetricsScore =>
          /\ frame_results' = frame_results
          /\ frame_calls' = frame_calls
          /\ config' = config
          /\ metrics_score # None => metrics_score' = metrics_score
          /\ \A label \in Range(TargetLabels) :
               /\ Unwrap(metrics_score').scene_results[label]
                     = ResultsInFrameOrder(label, Len(frame_results))
               /\ GroundTruthsOfLabel(label, Len(frame_results)) = 0
                     <=> Unwrap(metrics_score').num_scene_gt[label] = 0]_vars

\* a report on two frames that both hold results
C25_ReportOnTwoFrames ==
    /\ MetricsReturnedOk
    /\ Len(frame_results) = 2
    /\ frame_results[1].results # << >>
    /\ frame_results[2].results # << >>
    /\ \E label \in Range(TargetLabels) : Len(SceneResults(label)) >= 2

\* ---------------------------------------------------------------------------
\* Range and ordering of the values of calculate_ap (metrics/detection.rs)
\* ---------------------------------------------------------------------------
\* C26: whenever calculate_ap returns a value that is not NaN, the value is
\* at least 0 and at most 1, under AP and under APH
C26_ApInUnitRange ==
    (ApReturned /\ ~Unwrap(ap_out).value.nan) =>
        /\ ~FLt(Unwrap(ap_out).value, Frac(0, 1))
        /\ ~FLt(Frac(1, 1), Unwrap(ap_out).value)

\* C27: when every one of the n >= 1 results matches its ground truth under
\* the threshold and the ground-truth count is n, calculate_ap under AP
\* returns 1
C27_PerfectDetection ==
    (/\ ApCalled
     /\ ap_in.tp_metrics = "AP"
     /\ Len(ap_in.results) >= 1
     /\ ap_in.num_ground_truth = Len(ap_in.results)
     /\ \A i \in 1..Len(ap_in.results) : ApMatches(i)) =>
        /\ Unwrap(ap_out).outcome = "ok"
        /\ FEq(Unwrap(ap_out).value, Frac(1, 1))

\* C30: on the same results, ground-truth count, matching mode and threshold
\* the value under APH is never greater than the value under AP, whenever both
\* are numbers
C30_AphAtMostAp ==
    (ApReturned /\ ap_in.tp_metrics = "APH") =>
        LET ap == calculate_ap(ap_in.results, ap_in.num_ground_truth, "AP",
                               ap_in.matching_mode, ap_in.threshold)
        IN  (ap.outcome = "ok" /\ ~ap.value.nan /\ ~Unwrap(ap_out).value.nan) =>
                ~FLt(ap.value, Unwrap(ap_out).value)

\* ---------------------------------------------------------------------------
\* Range of the IoU scores (matching.rs)
\* ---------------------------------------------------------------------------
\* C28: for every pair of objects with non-negative sizes the Iou2d score and
\* the Iou3d score are at least 0 and at most 1, whatever the positions and
\* heights of the objects
C28_IouInUnitRange ==
    (EvaluatedPair /\ match_in.matching_mode \in IouModes) =>
        /\ ~RealLt(Unwrap(match_out).score, Zero)
        /\ ~RealLt(One, Unwrap(match_out).score)

\* ---------------------------------------------------------------------------
\* Counts of a frame result (result/frame.rs)
\* ---------------------------------------------------------------------------
\* C29: in every PerceptionFrameResult that add_frame_result builds, the number
\* of TP results plus the number of FN objects is the number of ground truths
\* of the frame
C29_TpPlusFnIsGroundTruths ==
    \A k \in 1..Len(frame_results) :
        Len(frame_results[k].tp_results) + Len(frame_results[k].fn_objects)
            = Len(frame_results[k].frame_ground_truth.objects)

====
